---------------------------- MODULE Spec2Model ----------------------------
(***************************************************************************)
(* A model of pg-crud-api: the credential engine (src/auth/api-key.ts),    *)
(* the query builder (src/db/query-builder.ts), the REST dispatch layer    *)
(* (src/routes/crud.ts, src/routes/schema.ts) and the agent surface        *)
(* (src/mcp/server.ts, src/mcp/http.ts).                                   *)
(*                                                                         *)
(* JavaScript strings are sequences of one-character strings, so that      *)
(* slicing, searching, quoting and encoding are computed as the code       *)
(* computes them.                                                          *)
(***************************************************************************)
EXTENDS Integers, Sequences, FiniteSets, TLC

\* ------------------------------------------------------------------------
\* Bounds of the model
\* ------------------------------------------------------------------------

\* Number of distinct sessions the agent transport may create in one run.
MaxSessions == 2

\* ------------------------------------------------------------------------
\* String helpers (JavaScript String.prototype)
\* ------------------------------------------------------------------------

Range(s) == { s[i] : i \in 1..Len(s) }

\* s.slice(from, to) with 0-based, end-exclusive indices
Slice(s, from, to) ==
  LET f == IF from < 0 THEN 0 ELSE IF from > Len(s) THEN Len(s) ELSE from
      t == IF to > Len(s) THEN Len(s) ELSE to
  IN  SubSeq(s, f + 1, t)

SliceFrom(s, from) == Slice(s, from, Len(s))

\* s.indexOf(c): 0-based index of the first occurrence of character c, or -1
IndexOf(s, c) ==
  IF \E i \in 1..Len(s) : s[i] = c
  THEN (CHOOSE i \in 1..Len(s) : s[i] = c /\ \A j \in 1..(i - 1) : s[j] # c) - 1
  ELSE -1

\* s.lastIndexOf(c)
LastIndexOf(s, c) ==
  IF \E i \in 1..Len(s) : s[i] = c
  THEN (CHOOSE i \in 1..Len(s) : s[i] = c /\ \A j \in (i + 1)..Len(s) : s[j] # c) - 1
  ELSE -1

StartsWith(s, p) == Len(s) >= Len(p) /\ Slice(s, 0, Len(p)) = p

\* whether p occurs in s as a contiguous substring
Contains(s, p) ==
  \E i \in 0..(Len(s) - Len(p)) : Slice(s, i, i + Len(p)) = p

\* the concrete sequence a function over 1..n stands for
AsSeq(f) == SubSeq(f, 1, Len(f))

RECURSIVE ConcatRange(_, _, _)
ConcatRange(parts, lo, hi) ==
  IF lo > hi THEN <<>>
  ELSE IF lo = hi THEN parts[lo]
  ELSE ConcatRange(parts, lo, (lo + hi) \div 2)
       \o ConcatRange(parts, ((lo + hi) \div 2) + 1, hi)

\* parts.join("") for a sequence of strings
Concat(parts) == ConcatRange(AsSeq(parts), 1, Len(parts))

\* parts.join(sep)
Join(parts, sep) ==
  Concat([i \in 1..(2 * Len(parts) - 1) |->
            IF i % 2 = 1 THEN parts[(i + 1) \div 2] ELSE sep])

RECURSIVE Split(_, _)
\* s.split(c) for a one-character separator: always at least one part
Split(s, c) ==
  LET i == IndexOf(s, c)
  IN  IF i < 0 THEN <<s>>
      ELSE <<Slice(s, 0, i)>> \o Split(SliceFrom(s, i + 1), c)

\* ------------------------------------------------------------------------
\* Character codes (printable ASCII, codes 32..126)
\* ------------------------------------------------------------------------

Ascii ==
  << " ", "!", "\"", "#", "$", "%", "&", "'", "(", ")", "*", "+", ",", "-",
     ".", "/", "0", "1", "2", "3", "4", "5", "6", "7", "8", "9", ":", ";",
     "<", "=", ">", "?", "@", "A", "B", "C", "D", "E", "F", "G", "H", "I",
     "J", "K", "L", "M", "N", "O", "P", "Q", "R", "S", "T", "U", "V", "W",
     "X", "Y", "Z", "[", "\\", "]", "^", "_", "<96>", "a", "b", "c", "d", "e",
     "f", "g", "h", "i", "j", "k", "l", "m", "n", "o", "p", "q", "r", "s",
     "t", "u", "v", "w", "x", "y", "z", "{", "|", "}", "~" >>

\* Buffer.from(str, 'utf8'): one byte per character
CharCode(c) ==
  IF c \in Range(Ascii)
  THEN 31 + (CHOOSE i \in 1..Len(Ascii) : Ascii[i] = c)
  ELSE 127

\* A byte outside printable ASCII is kept as one symbol.
CharOf(b) == IF b >= 32 /\ b <= 126 THEN Ascii[b - 31] ELSE "<np>"

\* ------------------------------------------------------------------------
\* Base64url without padding (Buffer ... 'base64url')
\* ------------------------------------------------------------------------

B64Alphabet ==
  << "A", "B", "C", "D", "E", "F", "G", "H", "I", "J", "K", "L", "M", "N",
     "O", "P", "Q", "R", "S", "T", "U", "V", "W", "X", "Y", "Z", "a", "b",
     "c", "d", "e", "f", "g", "h", "i", "j", "k", "l", "m", "n", "o", "p",
     "q", "r", "s", "t", "u", "v", "w", "x", "y", "z", "0", "1", "2", "3",
     "4", "5", "6", "7", "8", "9", "-", "_" >>

\* The decoder accepts both the URL-safe and the standard alphabet.
B64ValueTable ==
  [c \in Range(B64Alphabet) \cup {"+", "/"} |->
     IF c = "+" THEN 62
     ELSE IF c = "/" THEN 63
     ELSE (CHOOSE i \in 1..64 : B64Alphabet[i] = c) - 1]

\* Buffer.from(str, 'utf8').toString('base64url'): four characters per
\* three bytes, the last group cut short, no padding
toBase64url(str) ==
  LET \* the six-bit group at 0-based position j of the encoding of bytes
      group(j, b1, b2, b3) ==
        IF j % 4 = 0 THEN b1 \div 4
        ELSE IF j % 4 = 1 THEN (b1 % 4) * 16 + (b2 \div 16)
        ELSE IF j % 4 = 2 THEN (b2 % 16) * 4 + (b3 \div 64)
        ELSE b3 % 64
      byte(bytes, at) == IF at <= Len(bytes) THEN bytes[at] ELSE 0
      sextet(bytes, j, g) ==
        group(j, bytes[g + 1], byte(bytes, g + 2), byte(bytes, g + 3))
      encode(bytes) ==
        AsSeq([j \in 1..((Len(bytes) * 4 + 2) \div 3) |->
                 B64Alphabet[sextet(bytes, j - 1, 3 * ((j - 1) \div 4)) + 1]])
  IN  encode(AsSeq([i \in 1..Len(str) |-> CharCode(str[i])]))

\* Buffer.from(b64, 'base64url').toString('utf8'). The decoder skips
\* characters outside its alphabet and stops at "="; it yields three bytes
\* per four six-bit groups and drops a last group of one.
fromBase64url(b64) ==
  LET kept(s, stop) ==
        SelectSeq(IF stop < 0 THEN s ELSE Slice(s, 0, stop),
                  LAMBDA c : c \in DOMAIN B64ValueTable)
      symbols(k) == AsSeq([i \in 1..Len(k) |-> B64ValueTable[k[i]]])
      \* the byte at 0-based position k decoded from six-bit groups v
      octet(v, k, g) ==
        IF k % 3 = 0 THEN v[g + 1] * 4 + (v[g + 2] \div 16)
        ELSE IF k % 3 = 1 THEN (v[g + 2] % 16) * 16 + (v[g + 3] \div 4)
        ELSE (v[g + 3] % 4) * 64 + v[g + 4]
      decode(v) ==
        AsSeq([k \in 1..((Len(v) * 3) \div 4) |->
                 CharOf(octet(v, k - 1, 4 * ((k - 1) \div 3)))])
  IN  decode(symbols(kept(b64, IndexOf(b64, "="))))

\* ------------------------------------------------------------------------
\* JavaScript values and objects
\* ------------------------------------------------------------------------

\* A permissions value is null (full access), undefined (auth disabled) or
\* an object, kept as the sequence of its own entries in insertion order.
JsNull == [t |-> "null", e |-> <<>>]

JsUndefined == [t |-> "undefined", e |-> <<>>]

JsObject(entries) == [t |-> "object", e |-> entries]

Entry(k, v) == [k |-> k, v |-> v]

Keys(entries) == { entries[i].k : i \in 1..Len(entries) }

\* The value of obj[key]: a string [t |-> "string", s |-> ...], an inherited
\* member (a function or object, never a string) or undefined. Every plain
\* object inherits the members of Object.prototype; obj[key] finds them when
\* obj has no own property of that name.
PropGet(entries, key) ==
  IF key \in Keys(entries)
  THEN [t |-> "string",
        s |-> entries[CHOOSE i \in 1..Len(entries) : entries[i].k = key].v]
  ELSE IF key \in { <<"c","o","n","s","t","r","u","c","t","o","r">>,
                    <<"t","o","S","t","r","i","n","g">>,
                    <<"v","a","l","u","e","O","f">>,
                    <<"h","a","s","O","w","n","P","r","o","p","e","r","t","y">>,
                    <<"_","_","p","r","o","t","o","_","_">> }
       THEN [t |-> "inherited", s |-> <<>>]
       ELSE [t |-> "undefined", s |-> <<>>]

\* obj[key] = value, keeping the position of an existing key
PropSet(entries, key, value) ==
  IF key \in Keys(entries)
  THEN [i \in 1..Len(entries) |->
          IF entries[i].k = key THEN Entry(key, value) ELSE entries[i]]
  ELSE Append(entries, Entry(key, value))

\* ------------------------------------------------------------------------
\* JSON.stringify / JSON.parse for objects of string members
\* ------------------------------------------------------------------------

JsonString(s) ==
  <<"\"">>
  \o Concat([i \in 1..Len(s) |->
               IF s[i] \in {"\"", "\\"} THEN <<"\\", s[i]>> ELSE <<s[i]>>])
  \o <<"\"">>

JsonStringify(entries) ==
  <<"{">>
  \o Join([i \in 1..Len(entries) |->
             JsonString(entries[i].k) \o <<":">> \o JsonString(entries[i].v)],
          <<",">>)
  \o <<"}">>

RECURSIVE JsonStringBody(_, _, _)
\* Reads a JSON string whose opening quote is at 1-based position i - 1.
JsonStringBody(s, i, acc) ==
  IF i > Len(s) THEN [ok |-> FALSE, val |-> <<>>, next |-> i]
  ELSE IF s[i] = "\"" THEN [ok |-> TRUE, val |-> acc, next |-> i + 1]
  ELSE IF s[i] = "\\" THEN
    IF i + 1 <= Len(s) /\ s[i + 1] \in {"\"", "\\", "/"}
    THEN JsonStringBody(s, i + 2, Append(acc, s[i + 1]))
    ELSE [ok |-> FALSE, val |-> <<>>, next |-> i]
  ELSE JsonStringBody(s, i + 1, Append(acc, s[i]))

JsonReadString(s, i) ==
  IF i <= Len(s) /\ s[i] = "\""
  THEN JsonStringBody(s, i + 1, <<>>)
  ELSE [ok |-> FALSE, val |-> <<>>, next |-> i]

RECURSIVE JsonMembers(_, _, _)
\* Reads "key":"value" members from position i up to the closing brace.
JsonMembers(s, i, acc) ==
  LET k == JsonReadString(s, i)
      v == JsonReadString(s, k.next + 1)
  IN  IF ~k.ok \/ k.next > Len(s) \/ s[k.next] # ":" \/ ~v.ok
      THEN [ok |-> FALSE, e |-> <<>>]
      ELSE IF v.next = Len(s) /\ s[v.next] = "}"
           THEN [ok |-> TRUE, e |-> PropSet(acc, k.val, v.val)]
      ELSE IF v.next < Len(s) /\ s[v.next] = ","
           THEN JsonMembers(s, v.next + 1, PropSet(acc, k.val, v.val))
      ELSE [ok |-> FALSE, e |-> <<>>]

\* JSON.parse(text) followed by the caller's test that the result is a plain
\* object: ok is FALSE when the text does not parse or is not an object whose
\* members are all strings (the grammar read is the one JsonStringify writes:
\* no whitespace, string members only).
JsonParseObject(s) ==
  IF s = <<"{", "}">> THEN [ok |-> TRUE, e |-> <<>>]
  ELSE IF Len(s) >= 2 /\ s[1] = "{" THEN JsonMembers(s, 2, <<>>)
  ELSE [ok |-> FALSE, e |-> <<>>]

\* ------------------------------------------------------------------------
\* Credential engine (src/auth/api-key.ts)
\* ------------------------------------------------------------------------

KEY_PREFIX == <<"p", "g", "c", "r", "u", "d", "_">>

\* /^[a-zA-Z0-9_-]+$/
LABEL_PATTERN(s) ==
  /\ Len(s) >= 1
  /\ \A i \in 1..Len(s) :
       \/ s[i] \in {"_", "-"}
       \/ CharCode(s[i]) \in (48..57) \cup (65..90) \cup (97..122)

PermR == <<"r">>

PermW == <<"w">>

PermRW == <<"r", "w">>

VALID_PERMISSIONS == {PermR, PermW, PermRW}

Wildcard == <<"*">>

\* validatePermissions: TRUE when it returns, FALSE when it throws
validatePermissions(entries) ==
  /\ Len(entries) # 0
  /\ \A i \in 1..Len(entries) :
       /\ \E j \in 1..Len(entries[i].k) : entries[i].k[j] # " "
       /\ entries[i].v \in VALID_PERMISSIONS

\* createHmac('sha256', secret).update(data).digest(): a keyed hash of the
\* data, here three bytes wide. Every position of the data carries its own
\* key-dependent weight and the modulus is prime, so two inputs differing in
\* one byte never share a digest.
HashModulus == 4096 * 4096 - 3

RECURSIVE HashTerms(_, _, _, _)
HashTerms(s, key, lo, hi) ==
  IF lo > hi THEN 0
  ELSE IF lo = hi
       THEN (CharCode(s[lo]) * ((key * (2 * lo + 1)) % HashModulus)) % HashModulus
  ELSE (HashTerms(s, key, lo, (lo + hi) \div 2)
        + HashTerms(s, key, ((lo + hi) \div 2) + 1, hi)) % HashModulus

HexDigits ==
  << "0", "1", "2", "3", "4", "5", "6", "7", "8", "9",
     "a", "b", "c", "d", "e", "f" >>

\* digest('hex'): two lower-case hexadecimal digits per byte
createHmacHex(secret, data) ==
  LET bytes(h) == << h \div 65536, (h \div 256) % 256, h % 256 >>
      keyed(key) == bytes((HashTerms(data, key, 1, Len(data)) + Len(data) * key)
                          % HashModulus)
      digest(d) ==
        AsSeq([i \in 1..(2 * Len(d)) |->
                 IF i % 2 = 1 THEN HexDigits[(d[(i + 1) \div 2] \div 16) + 1]
                 ELSE HexDigits[(d[i \div 2] % 16) + 1]])
  IN  digest(keyed(1 + (HashTerms(secret, 1, 1, Len(secret)) % (HashModulus - 1))))

RECURSIVE BufferFromHex(_)
\* Buffer.from(str, 'hex'): decodes pairs of digits of either case and stops
\* at the first pair that is not hexadecimal; an odd last digit is dropped.
BufferFromHex(s) ==
  LET upper == <<"A", "B", "C", "D", "E", "F">>
      \* the value of one hexadecimal digit in either case, or -1
      value(c) ==
        IF \E i \in 1..16 : HexDigits[i] = c
        THEN (CHOOSE i \in 1..16 : HexDigits[i] = c) - 1
        ELSE IF \E i \in 1..6 : upper[i] = c
             THEN (CHOOSE i \in 1..6 : upper[i] = c) + 9
             ELSE -1
      pair(hi, lo) ==
        IF hi < 0 \/ lo < 0 THEN <<>>
        ELSE <<hi * 16 + lo>> \o BufferFromHex(SliceFrom(s, 2))
  IN  IF Len(s) < 2 THEN <<>> ELSE pair(value(s[1]), value(s[2]))

\* generateApiKey(label, secret, permissions?): ok is FALSE when it throws
generateApiKey(label, secret, permissions) ==
  IF ~LABEL_PATTERN(label) THEN [ok |-> FALSE, key |-> <<>>]
  ELSE IF permissions.t = "object" /\ ~validatePermissions(permissions.e)
       THEN [ok |-> FALSE, key |-> <<>>]
  ELSE LET signed(data) ==
             [ok |-> TRUE,
              key |-> KEY_PREFIX \o data \o <<".">> \o createHmacHex(secret, data)]
       IN  signed(IF permissions.t = "object"
                  THEN label \o <<":">> \o toBase64url(JsonStringify(permissions.e))
                  ELSE label)

NoKeyData == [ok |-> FALSE, label |-> <<>>, permissions |-> JsUndefined]

\* parseKeyData(data): ok is FALSE for the null result
parseKeyData(data) ==
  LET colonIndex == IndexOf(data, ":")
  IN  IF colonIndex <= 0
      THEN IF LABEL_PATTERN(data)
           THEN [ok |-> TRUE, label |-> data, permissions |-> JsNull]
           ELSE NoKeyData
      ELSE
        LET keyData(label, permEncoded, parsed) ==
              IF ~LABEL_PATTERN(label) THEN NoKeyData
              ELSE IF Len(permEncoded) = 0 THEN NoKeyData
              ELSE IF ~parsed.ok THEN NoKeyData
              ELSE IF \E i \in 1..Len(parsed.e) : parsed.e[i].v \notin VALID_PERMISSIONS
                   THEN NoKeyData
              ELSE [ok |-> TRUE, label |-> label, permissions |-> JsObject(parsed.e)]
        IN  keyData(Slice(data, 0, colonIndex), SliceFrom(data, colonIndex + 1),
                    JsonParseObject(fromBase64url(SliceFrom(data, colonIndex + 1))))

verifyHmacLengthOnly(data, providedHmac, secret) ==
  Len(BufferFromHex(providedHmac)) = Len(BufferFromHex(createHmacHex(secret, data)))

verifyHmac(data, providedHmac, secret) ==
  LET timingSafeEqual(providedBuffer, expectedBuffer) ==
        IF Len(providedBuffer) # Len(expectedBuffer) THEN FALSE
        ELSE providedBuffer = expectedBuffer
  IN  timingSafeEqual(BufferFromHex(providedHmac),
                      BufferFromHex(createHmacHex(secret, data)))

Invalid == [valid |-> FALSE, label |-> <<>>, permissions |-> JsUndefined]

verifyApiKey(key, secret) ==
  IF ~StartsWith(key, KEY_PREFIX) THEN Invalid
  ELSE
    LET verified(data, providedHmac, parsed) ==
          IF Len(providedHmac) = 0 THEN Invalid
          ELSE IF ~parsed.ok THEN Invalid
          ELSE IF ~verifyHmac(data, providedHmac, secret) THEN Invalid
          ELSE [valid |-> TRUE, label |-> parsed.label,
                permissions |-> parsed.permissions]
        split(withoutPrefix, dotIndex) ==
          IF dotIndex <= 0 THEN Invalid
          ELSE verified(Slice(withoutPrefix, 0, dotIndex),
                        SliceFrom(withoutPrefix, dotIndex + 1),
                        parseKeyData(Slice(withoutPrefix, 0, dotIndex)))
    IN  split(SliceFrom(key, Len(KEY_PREFIX)),
              LastIndexOf(SliceFrom(key, Len(KEY_PREFIX)), "."))

\* !!value for a value read from a permissions object
Truthy(val) ==
  \/ val.t = "inherited"
  \/ val.t = "string" /\ val.s # <<>>

\* permissions[schema] ?? permissions['*']
LookupPerm(entries, schema) ==
  LET own == PropGet(entries, schema)
  IN  IF own.t = "undefined" THEN PropGet(entries, Wildcard) ELSE own

\* hasPermission(permissions, schema, access), access one of PermR, PermW
hasPermission(permissions, schema, access) ==
  IF permissions.t \in {"null", "undefined"} THEN TRUE
  ELSE LET perm == LookupPerm(permissions.e, schema)
       IN  IF ~Truthy(perm) THEN FALSE
           ELSE perm.t = "string" /\ (perm.s = PermRW \/ perm.s = access)

hasAnyPermission(permissions, schema) ==
  IF permissions.t \in {"null", "undefined"} THEN TRUE
  ELSE Truthy(LookupPerm(permissions.e, schema))

\* ------------------------------------------------------------------------
\* State
\* ------------------------------------------------------------------------

VARIABLES
  minted,      \* the token generateApiKey returned, with what it was minted for
  presented,   \* the token handed to verifyApiKey and how it was derived
  verdict,     \* what verifyApiKey answered for the presented token
  permCall,    \* the last hasPermission / hasAnyPermission call and its answer
  query,       \* the last query-builder call and the statement it returned
  config,      \* the configuration main() started the server with
  exchange,    \* the last request the server answered and what it did for it
  sessions,    \* the session table of registerMcpRoutes: session id -> session
  history,     \* which session ids were initialized, which ended, and for whom
  introspection, \* introspectDatabase: where it stands, what it asked and got
  handlers,    \* the request handlers in flight, each with where it stands
  transports,  \* the agent transports created so far, open or closed
  process      \* the process: its pools, its shutdown calls, its exit code

vars == <<minted, presented, verdict, permCall, query, config, exchange, sessions, history, introspection, handlers, transports, process>>

\* ------------------------------------------------------------------------
\* Names used by the model
\* ------------------------------------------------------------------------

Public == <<"p", "u", "b", "l", "i", "c">>

Reporting == <<"r", "e", "p", "o", "r", "t", "i", "n", "g">>

\* a namespace whose name is also a member of Object.prototype
Constructor == <<"c", "o", "n", "s", "t", "r", "u", "c", "t", "o", "r">>

Namespaces == {Public, Reporting, Constructor}

Secret == <<"k", "3", "y">>

\* ------------------------------------------------------------------------
\* Permission checks as a pure function (hasPermission, hasAnyPermission)
\* ------------------------------------------------------------------------

\* Largest number of entries of a permissions object drawn by the model.
MaxPermEntries == 2

PermissionValues ==
  {JsNull, JsUndefined}
  \cup { JsObject(s) :
           s \in { s \in UNION { [1..n -> [k : {Public, Reporting, Wildcard},
                                           v : VALID_PERMISSIONS]] :
                                 n \in 1..MaxPermEntries } :
                     \A i, j \in 1..Len(s) : i # j => s[i].k # s[j].k } }

PermIdle ==
  permCall = [fn |-> "none", permissions |-> JsUndefined, schema |-> <<>>,
     access |-> <<>>, result |-> FALSE]

QueryIdle ==
  query = [op |-> "none", table |-> JsUndefined, input |-> <<>>,
           ok |-> FALSE, text |-> <<>>, values |-> <<>>]

TokenFrame == UNCHANGED <<permCall, query, config, exchange, sessions, history, introspection, handlers, transports, process>>

PermFrame == UNCHANGED <<minted, presented, verdict, query, config, exchange, sessions, history, introspection, handlers, transports, process>>

QueryFrame == UNCHANGED <<minted, presented, verdict, permCall, config, exchange, sessions, history, introspection, handlers, transports, process>>

CallHasPermission ==
  \E p \in PermissionValues, ns \in Namespaces, a \in {PermR, PermW} :
    /\ PermIdle
    /\ permCall' = [fn |-> "hasPermission", permissions |-> p, schema |-> ns,
                    access |-> a, result |-> hasPermission(p, ns, a)]
    /\ PermFrame

CallHasAnyPermission ==
  \E p \in PermissionValues, ns \in Namespaces :
    /\ PermIdle
    /\ permCall' = [fn |-> "hasAnyPermission", permissions |-> p, schema |-> ns,
                    access |-> <<>>, result |-> hasAnyPermission(p, ns)]
    /\ PermFrame

\* ------------------------------------------------------------------------
\* Minting, tampering and verifying tokens
\* ------------------------------------------------------------------------

MintClaims ==
  { JsUndefined,
    JsObject(<<Entry(Public, PermR)>>),
    JsObject(<<Entry(Public, PermRW)>>),
    JsObject(<<Entry(Wildcard, PermR)>>),
    JsObject(<<Entry(Public, PermR), Entry(Reporting, PermRW)>>) }

\* the characters a tampered byte is replaced by
TamperChars == {"A", "B", "C", "D", "E", "F", "0", "7", "e", "z", ":", ".", "=", "!"}

NoMint == [label |-> <<>>, claims |-> JsUndefined, key |-> <<>>]

NoPresented == [key |-> <<>>, how |-> "none"]

\* the 1-based position of the dot between the data and the MAC of a key
DotPos(key) == LastIndexOf(key, ".") + 1

Generate ==
  \E label \in { <<"s", "v", "c">>, <<"a", "-", "1">> }, claims \in MintClaims :
    LET g == generateApiKey(label, Secret, claims)
    IN  /\ minted = NoMint
        /\ g.ok
        /\ minted' = [label |-> label, claims |-> claims, key |-> g.key]
        /\ UNCHANGED <<presented, verdict>>
        /\ TokenFrame

CanPresent == minted # NoMint /\ presented = NoPresented

PresentMinted ==
  /\ CanPresent
  /\ presented' = [key |-> minted.key, how |-> "minted"]
  /\ UNCHANGED <<minted, verdict>>
  /\ TokenFrame

\* one byte of the data part replaced by another character
MutateDataByte ==
  \E i \in (Len(KEY_PREFIX) + 1)..(DotPos(minted.key) - 1), c \in TamperChars :
    /\ CanPresent
    /\ c # minted.key[i]
    /\ presented' = [key |-> [minted.key EXCEPT ![i] = c], how |-> "data"]
    /\ UNCHANGED <<minted, verdict>>
    /\ TokenFrame

\* one byte of the MAC part replaced by another character
MutateMacByte ==
  \E i \in (DotPos(minted.key) + 1)..Len(minted.key), c \in TamperChars :
    /\ CanPresent
    /\ c # minted.key[i]
    /\ presented' = [key |-> [minted.key EXCEPT ![i] = c], how |-> "mac"]
    /\ UNCHANGED <<minted, verdict>>
    /\ TokenFrame

\* the claims segment of a scoped token cut away, the MAC kept
TrimClaims ==
  /\ CanPresent
  /\ minted.claims.t = "object"
  /\ presented' = [key |-> KEY_PREFIX \o minted.label \o <<".">> \o SliceFrom(minted.key, DotPos(minted.key)),
                   how |-> "trim"]
  /\ UNCHANGED <<minted, verdict>>
  /\ TokenFrame

\* a claims segment added to a legacy token, the MAC kept
AddClaims ==
  \E claims \in MintClaims :
    /\ CanPresent
    /\ minted.claims.t # "object"
    /\ claims.t = "object"
    /\ presented' =
         [key |-> KEY_PREFIX \o minted.label \o <<":">>
                  \o toBase64url(JsonStringify(claims.e))
                  \o <<".">> \o SliceFrom(minted.key, DotPos(minted.key)),
          how |-> "add"]
    /\ UNCHANGED <<minted, verdict>>
    /\ TokenFrame

\* the claims of a scoped token replaced by other claims, the MAC kept
ChangeClaims ==
  \E claims \in MintClaims :
    /\ CanPresent
    /\ minted.claims.t = "object"
    /\ claims.t = "object"
    /\ claims # minted.claims
    /\ presented' =
         [key |-> KEY_PREFIX \o minted.label \o <<":">>
                  \o toBase64url(JsonStringify(claims.e))
                  \o <<".">> \o SliceFrom(minted.key, DotPos(minted.key)),
          how |-> "change"]
    /\ UNCHANGED <<minted, verdict>>
    /\ TokenFrame

Verify ==
  /\ presented # NoPresented
  /\ ~verdict.done
  /\ \E r \in {verifyApiKey(presented.key, Secret)} :
       verdict' = [done |-> TRUE, valid |-> r.valid, label |-> r.label,
                     permissions |-> r.permissions]
  /\ UNCHANGED <<minted, presented>>
  /\ TokenFrame

\* ------------------------------------------------------------------------
\* Specifications
\* ------------------------------------------------------------------------

\* No key minted, no builder or permission call made, and the process
\* before main() has run: nothing configured, nothing answered.
Init ==
  /\ minted = NoMint
  /\ presented = NoPresented
  /\ verdict = [done |-> FALSE, valid |-> FALSE, label |-> <<>>, permissions |-> JsUndefined]
  /\ PermIdle
  /\ QueryIdle
  /\ config = [booted |-> FALSE, readReplica |-> FALSE, apiKeysEnabled |-> FALSE,
               exposeDbErrors |-> FALSE]
  /\ exchange = [surface |-> "none", request |-> <<>>, route |-> "none", status |-> 0,
                 permissions |-> JsUndefined, statements |-> <<>>, listing |-> {}]
  /\ sessions = <<>>
  /\ history = [initialized |-> {}, ended |-> {}, claims |-> <<>>]
  /\ introspection = [pc |-> "idle"]
  /\ handlers = <<>>
  /\ transports = <<>>
  /\ process = [pc |-> "idle", entry |-> "none", replica |-> FALSE, accepting |-> TRUE,
                shutdowns |-> <<>>, ends |-> [primary |-> 0, replica |-> 0], code |-> 0]

NextPerm == CallHasPermission \/ CallHasAnyPermission

SpecPerm == Init /\ [][NextPerm]_vars

NextToken ==
  \/ Generate
  \/ PresentMinted
  \/ MutateDataByte
  \/ MutateMacByte
  \/ TrimClaims
  \/ AddClaims
  \/ ChangeClaims
  \/ Verify

SpecToken == Init /\ [][NextToken]_vars

\* ------------------------------------------------------------------------
\* Claims about the credential engine
\* ------------------------------------------------------------------------

\* The documented lookup: the namespace's own entry, else the "*" entry,
\* else none; the grant is whether the entry found holds the access letter.
DocumentedPermission(permissions, schema, access) ==
  LET e == permissions.e
      found == IF schema \in Keys(e) THEN {PropGet(e, schema).s}
               ELSE IF Wildcard \in Keys(e) THEN {PropGet(e, Wildcard).s}
               ELSE {}
  IN  IF permissions.t # "object" THEN TRUE
      ELSE \E v \in found : access[1] \in Range(v)

\* C4: hasPermission grants everything to a full-access token and when auth
\* is disabled; for a scoped token it uses the namespace's own entry, falls
\* back to the "*" entry only when the namespace has none, grants exactly
\* when the entry found contains the requested letter, and denies when
\* neither entry exists.
C4_PermissionSemantics ==
  permCall.fn = "hasPermission" =>
    permCall.result =
      DocumentedPermission(permCall.permissions, permCall.schema, permCall.access)

\* C5: a minted token with one byte of its data part or of its MAC part
\* replaced is rejected by verification under the same secret.
C5_MutatedTokenRejected ==
  (verdict.done /\ presented.how \in {"data", "mac"}) => ~verdict.valid

\* C6: a scoped token with its claims trimmed away, a legacy token with
\* claims added and a scoped token with changed claims, each keeping the
\* original MAC, are rejected; and whatever token is accepted grants no
\* (namespace, access) pair that the minted token does not grant.
C6_ClaimsBoundToMac ==
  verdict.done =>
    /\ presented.how \in {"trim", "add", "change"} => ~verdict.valid
    /\ verdict.valid =>
         \A ns \in Namespaces, a \in {PermR, PermW} :
           hasPermission(verdict.permissions, ns, a)
             => hasPermission(IF minted.claims.t = "object" THEN minted.claims
                              ELSE JsNull, ns, a)

\* a scoped token whose read-only entry was raised to read-write has been
\* verified and rejected
C6_Witness ==
  /\ verdict.done
  /\ presented.how = "change"
  /\ minted.claims = JsObject(<<Entry(Public, PermR)>>)
  /\ parseKeyData(Slice(presented.key, Len(KEY_PREFIX), DotPos(presented.key) - 1)).permissions = JsObject(<<Entry(Public, PermRW)>>)
  /\ ~verdict.valid

\* ------------------------------------------------------------------------
\* Introspected tables (TableInfo), after the test fixtures
\* ------------------------------------------------------------------------

\* `"${name.replaceAll('"', '""')}"`
quoteIdent(name) ==
  <<"\"">> \o Concat([i \in 1..Len(name) |-> IF name[i] = "\"" THEN <<"\"", "\"">> ELSE <<name[i]>>])
  \o <<"\"">>

\* makeFqn(schema, table): `"${schema}"."${table}"`
makeFqn(schema, table) == <<"\"">> \o schema \o <<"\"", ".", "\"">> \o table \o <<"\"">>

\* the TableInfo the introspector builds for schema.name
TableInfo(schema, name, columns, primaryKeys) ==
  [schema |-> schema, name |-> name,
   fqn |-> makeFqn(schema, name),
   routePath |-> IF schema = Public THEN name ELSE schema \o <<"_", "_">> \o name,
   columns |-> columns, primaryKeys |-> primaryKeys]

Tables ==
  { TableInfo(Public, <<"u", "s", "e", "r", "s">>, <<<<"i", "d">>, <<"n", "a", "m", "e">>>>, <<<<"i", "d">>>>),
    TableInfo(Public, <<"u", "s", "e", "r", "_", "r", "o", "l", "e", "s">>, <<<<"u", "s", "e", "r", "_", "i", "d">>, <<"r", "o", "l", "e", "_", "i", "d">>>>, <<<<"u", "s", "e", "r", "_", "i", "d">>, <<"r", "o", "l", "e", "_", "i", "d">>>>),
    TableInfo(Public, <<"a", "u", "d", "i", "t", "_", "l", "o", "g", "s">>, <<<<"e", "v", "e", "n", "t">>>>, <<>>),
    TableInfo(Reporting, <<"m", "e", "t", "r", "i", "c", "s">>, <<<<"i", "d">>, <<"v", "a", "l", "u", "e">>>>, <<<<"i", "d">>>>),
    TableInfo(Constructor, <<"j", "o", "b", "s">>, <<<<"i", "d">>>>, <<<<"i", "d">>>>),
    TableInfo(Public, <<"p", "o", "s", "t", "s">>, <<<<"i", "d">>, <<"t", "i", "t", "l", "e">>, <<"d", "e", "l", "e", "t", "e", "d", "_", "a", "t">>, <<"u", "p", "d", "a", "t", "e", "d", "_", "a", "t">>>>, <<<<"i", "d">>>>) }

\* ------------------------------------------------------------------------
\* Query builder (src/db/query-builder.ts)
\* ------------------------------------------------------------------------

DefaultPageSize == 50

MaxPageSize == 1000

MaxBulkInsertRows == 1000

FILTER_OPERATORS ==
  << Entry(<<"e", "q">>, <<"=">>), Entry(<<"n", "e", "q">>, <<"!", "=">>), Entry(<<"g", "t">>, <<">">>), Entry(<<"g", "t", "e">>, <<">", "=">>),
     Entry(<<"l", "t">>, <<"<">>), Entry(<<"l", "t", "e">>, <<"<", "=">>), Entry(<<"l", "i", "k", "e">>, <<"L", "I", "K", "E">>),
     Entry(<<"i", "l", "i", "k", "e">>, <<"I", "L", "I", "K", "E">>), Entry(<<"i", "s">>, <<"I", "S">>), Entry(<<"i", "n">>, <<"I", "N">>) >>

\* value.replaceAll(/[%_\\]/g, '\\$&')
escapeLike(value) ==
  Concat([i \in 1..Len(value) |->
            IF value[i] \in {"%", "_", "\\"} THEN <<"\\", value[i]>> ELSE <<value[i]>>])

\* a column test that lets every name through
AcceptAnyColumn(table, col) == TRUE

isValidColumn(table, col) == \E i \in 1..Len(table.columns) : table.columns[i] = col

RECURSIVE NumStr(_)
\* String(n) for n >= 0
NumStr(n) ==
  IF n < 10 THEN <<HexDigits[n + 1]>>
  ELSE NumStr(n \div 10) \o <<HexDigits[(n % 10) + 1]>>

\* `$${n}`
Placeholder(n) == <<"$">> \o NumStr(n)

\* getColumnNames(table, select): ok is FALSE when it throws
getColumnNames(table, select) ==
  LET valid == SelectSeq(select, LAMBDA c : isValidColumn(table, c))
  IN  IF Len(select) = 0 THEN [ok |-> TRUE, text |-> <<"*">>]
      ELSE IF Len(valid) > 0
           THEN [ok |-> TRUE,
                 text |-> Join([i \in 1..Len(valid) |-> quoteIdent(valid[i])], <<",", " ">>)]
      ELSE [ok |-> FALSE, text |-> <<>>]

parseOperatorAndValue(strValue) ==
  LET colonIdx == IndexOf(strValue, ":")
      maybeOp == Slice(strValue, 0, colonIdx)
  IN  IF colonIdx <= 0 THEN [op |-> <<"e", "q">>, value |-> strValue]
      ELSE IF ~Truthy(PropGet(FILTER_OPERATORS, maybeOp))
           THEN [op |-> <<"e", "q">>, value |-> strValue]
      ELSE [op |-> maybeOp, value |-> SliceFrom(strValue, colonIdx + 1)]

\* coerceFilterValue(op, rawValue): null, the list of parts of an IN filter
\* (field a), or the raw string; ok is FALSE when it throws
coerceFilterValue(op, rawValue) ==
  LET lower == [i \in 1..Len(rawValue) |->
                  IF CharCode(rawValue[i]) \in 65..90
                  THEN CharOf(CharCode(rawValue[i]) + 32) ELSE rawValue[i]]
      parts == Split(rawValue, ",")
  IN  IF op = <<"i", "s">>
      THEN [ok |-> TRUE, t |-> IF AsSeq(lower) = <<"n", "u", "l", "l">> THEN "null" ELSE "string",
            s |-> rawValue, a |-> <<>>]
      ELSE IF op = <<"i", "n">>
           THEN [ok |-> Len(parts) <= 100, t |-> "array", s |-> <<>>, a |-> parts]
      ELSE [ok |-> TRUE, t |-> "string", s |-> rawValue, a |-> <<>>]

\* parseFiltersFromObject(filters, table): ok is FALSE when a column does
\* not exist (validateFilterColumn) or a value cannot be coerced
parseFiltersFromObject(filters, table) ==
  LET parsed == [i \in 1..Len(filters) |->
                   LET p == parseOperatorAndValue(filters[i].v)
                   IN  [column |-> filters[i].k, operator |-> p.op,
                        value |-> coerceFilterValue(p.op, p.value)]]
  IN  [ok |-> \A i \in 1..Len(filters) :
                isValidColumn(table, filters[i].k) /\ parsed[i].value.ok,
       filters |-> parsed]


RECURSIVE WhereFilters(_, _, _)
\* the loop of buildWhereClauses over the parsed filters; acc carries
\* whereClauses, values and paramIdx
WhereFilters(filters, i, acc) ==
  IF i > Len(filters) THEN acc
  ELSE
    LET f == filters[i]
        op == PropGet(FILTER_OPERATORS, f.operator)
        \* an operator name inherited from Object.prototype is truthy too and
        \* is interpolated as the text of that member
        sqlOp == IF op.t = "string" THEN op.s
                 ELSE <<"f", "u", "n", "c", "t", "i", "o", "n", " ", "O", "b", "j", "e", "c", "t", "(", ")", " ", "{", " ", "[", "n", "a", "t", "i", "v", "e", " ", "c", "o", "d", "e", "]", " ", "}">>
        n == Len(f.value.a)
    IN  WhereFilters(filters, i + 1,
          IF f.operator = <<"i", "s">>
          THEN [acc EXCEPT !.clauses =
                  Append(@, quoteIdent(f.column) \o <<" ", "I", "S", " ">>
                            \o (IF f.value.t = "null" THEN <<"N", "U", "L", "L">> ELSE <<"N", "O", "T", " ", "N", "U", "L", "L">>))]
          ELSE IF f.operator = <<"i", "n">>
          THEN [clauses |->
                  Append(acc.clauses,
                         quoteIdent(f.column) \o <<" ", "I", "N", " ", "(">>
                         \o Join([k \in 1..n |-> Placeholder(acc.paramIdx + k - 1)], <<",", " ">>)
                         \o <<")">>),
                values |-> acc.values
                           \o [k \in 1..n |-> [t |-> "string", s |-> f.value.a[k]]],
                paramIdx |-> acc.paramIdx + n]
          ELSE [clauses |->
                  Append(acc.clauses,
                         quoteIdent(f.column) \o <<" ">> \o sqlOp \o <<" ">>
                         \o Placeholder(acc.paramIdx)),
                values |-> Append(acc.values, [t |-> "string", s |-> f.value.s]),
                paramIdx |-> acc.paramIdx + 1])

\* buildWhereClauses(table, opts, startParamIdx): ok is FALSE when it throws
buildWhereClauses(table, opts, startParamIdx) ==
  LET where(parsed, filtered, searchCols, searching, whereClauses) ==
        [ok |-> parsed.ok,
         clause |-> IF Len(whereClauses) > 0
                    THEN <<" ", "W", "H", "E", "R", "E", " ">> \o Join(whereClauses, <<" ", "A", "N", "D", " ">>) ELSE <<>>,
         values |-> IF searching
                    THEN Append(filtered.values,
                                [t |-> "string", s |-> <<"%">> \o escapeLike(opts.search) \o <<"%">>])
                    ELSE filtered.values,
         nextParamIdx |-> filtered.paramIdx + (IF searching THEN 1 ELSE 0)]
      clauses(filtered, searchCols, searching) ==
        IF searching
        THEN Append(filtered.clauses,
                    <<"(">> \o Join([i \in 1..Len(searchCols) |->
                                   quoteIdent(searchCols[i]) \o <<":", ":", "t", "e", "x", "t", " ", "I", "L", "I", "K", "E", " ">>
                                   \o Placeholder(filtered.paramIdx)], <<" ", "O", "R", " ">>) \o <<")">>)
        ELSE filtered.clauses
      search(parsed, filtered, searchCols, searching) ==
        where(parsed, filtered, searchCols, searching,
              clauses(filtered, searchCols, searching))
      filter(parsed, searchCols) ==
        search(parsed,
               WhereFilters(parsed.filters, 1,
                 [clauses |-> <<>>, values |-> <<>>, paramIdx |-> startParamIdx]),
               searchCols, opts.search # <<>> /\ Len(searchCols) > 0)
  IN  filter(parseFiltersFromObject(opts.filters, table),
             SelectSeq(opts.searchColumns, LAMBDA c : isValidColumn(table, c)))

\* a builder that threw
Threw == [ok |-> FALSE, text |-> <<>>, values |-> <<>>]

\* opts.page and opts.pageSize are undefined or a number [t, n]
buildSelectQuery(table, opts) ==
  LET \* value || default: undefined and 0 are falsy
      orDefault(value, default) ==
        IF value.t = "number" /\ value.n # 0 THEN value.n ELSE default
      \* Math.min(config.maxPageSize, Math.max(1, wanted))
      clamp(wanted) == IF wanted < 1 THEN 1
                       ELSE IF wanted > MaxPageSize THEN MaxPageSize ELSE wanted
      atLeastOne(wanted) == IF wanted < 1 THEN 1 ELSE wanted
      statement(page, pageSize, columns, where, sortCol) ==
        IF ~columns.ok \/ ~where.ok THEN Threw
        ELSE [ok |-> TRUE,
              text |-> <<"S", "E", "L", "E", "C", "T", " ">> \o columns.text \o <<" ", "F", "R", "O", "M", " ">> \o table.fqn \o where.clause
                       \o (IF sortCol # <<>>
                           THEN <<" ", "O", "R", "D", "E", "R", " ", "B", "Y", " ">> \o quoteIdent(sortCol) \o <<" ">>
                                \o (IF opts.sortOrder = <<"d", "e", "s", "c">> THEN <<"D", "E", "S", "C">> ELSE <<"A", "S", "C">>)
                           ELSE <<>>)
                       \o <<" ", "L", "I", "M", "I", "T", " ">> \o Placeholder(where.nextParamIdx)
                       \o <<" ", "O", "F", "F", "S", "E", "T", " ">> \o Placeholder(where.nextParamIdx + 1),
              values |-> where.values
                         \o << [t |-> "number", s |-> NumStr(pageSize)],
                               [t |-> "number", s |-> NumStr((page - 1) * pageSize)] >>]
  IN  statement(atLeastOne(orDefault(opts.page, 1)),
                clamp(orDefault(opts.pageSize, DefaultPageSize)),
                getColumnNames(table, opts.select),
                buildWhereClauses(table, opts, 1),
                IF opts.sortBy # <<>> /\ isValidColumn(table, opts.sortBy)
                THEN opts.sortBy
                ELSE IF Len(table.primaryKeys) > 0 THEN table.primaryKeys[1]
                ELSE IF Len(table.columns) > 0 THEN table.columns[1]
                ELSE <<>>)

\* a count that leaves the search term out of its WHERE
buildCountQueryNoSearch(table, opts) ==
  LET statement(where) ==
        IF ~where.ok THEN Threw
        ELSE [ok |-> TRUE,
              text |-> <<"S", "E", "L", "E", "C", "T", " ", "C", "O", "U", "N", "T", "(", "*", ")", " ", "A", "S", " ", "t", "o", "t", "a", "l", " ", "F", "R", "O", "M", " ">> \o table.fqn \o where.clause,
              values |-> where.values]
  IN  statement(buildWhereClauses(table, [opts EXCEPT !.search = <<>>], 1))

buildCountQuery(table, opts) ==
  LET statement(where) ==
        IF ~where.ok THEN Threw
        ELSE [ok |-> TRUE,
              text |-> <<"S", "E", "L", "E", "C", "T", " ", "C", "O", "U", "N", "T", "(", "*", ")", " ", "A", "S", " ", "t", "o", "t", "a", "l", " ", "F", "R", "O", "M", " ">> \o table.fqn \o where.clause,
              values |-> where.values]
  IN  statement(buildWhereClauses(table, opts, 1))

\* the loop over table.primaryKeys shared by the by-key builders:
\* `"pk" = $n` joined by AND, and pkValues[pk] pushed for each key column
PkClauses(table, pkValues, paramIdx) ==
  [text |-> Join([i \in 1..Len(table.primaryKeys) |->
                    quoteIdent(table.primaryKeys[i]) \o <<" ", "=", " ">>
                    \o Placeholder(paramIdx + i - 1)], <<" ", "A", "N", "D", " ">>),
   values |-> AsSeq([i \in 1..Len(table.primaryKeys) |->
                       PropGet(pkValues, table.primaryKeys[i])])]

buildSelectByPkQuery(table, pkValues, select) ==
  LET columns == getColumnNames(table, select)
      where == PkClauses(table, pkValues, 1)
  IN  IF ~columns.ok THEN Threw
      ELSE [ok |-> TRUE,
            text |-> <<"S", "E", "L", "E", "C", "T", " ">> \o columns.text \o <<" ", "F", "R", "O", "M", " ">> \o table.fqn
                     \o <<" ", "W", "H", "E", "R", "E", " ">> \o where.text \o <<" ", "L", "I", "M", "I", "T", " ", "1">>,
            values |-> where.values]

buildInsertQuery(table, data) ==
  LET validColumns == SelectSeq(table.columns,
                                LAMBDA c : PropGet(data, c).t # "undefined")
      n == Len(validColumns)
  IN  IF n = 0 THEN Threw
      ELSE [ok |-> TRUE,
            text |-> <<"I", "N", "S", "E", "R", "T", " ", "I", "N", "T", "O", " ">> \o table.fqn \o <<" ", "(">>
                     \o Join([i \in 1..n |-> quoteIdent(validColumns[i])], <<",", " ">>)
                     \o <<")", " ", "V", "A", "L", "U", "E", "S", " ", "(">>
                     \o Join([i \in 1..n |-> Placeholder(i)], <<",", " ">>)
                     \o <<")", " ", "R", "E", "T", "U", "R", "N", "I", "N", "G", " ", "*">>,
            values |-> AsSeq([i \in 1..n |-> PropGet(data, validColumns[i])])]

buildBulkInsertQuery(table, rows) ==
  LET keys == Concat([r \in 1..Len(rows) |->
                        [i \in 1..Len(rows[r]) |-> rows[r][i].k]])
      first == SelectSeq([i \in 1..Len(keys) |-> i],
                         LAMBDA i : /\ isValidColumn(table, keys[i])
                                    /\ \A j \in 1..(i - 1) : keys[j] # keys[i])
      columns == [c \in 1..Len(first) |-> keys[first[c]]]
      n == Len(first)
  IN  IF Len(rows) = 0 \/ Len(rows) > MaxBulkInsertRows \/ n = 0 THEN Threw
      ELSE [ok |-> TRUE,
            text |-> <<"I", "N", "S", "E", "R", "T", " ", "I", "N", "T", "O", " ">> \o table.fqn \o <<" ", "(">>
                     \o Join([c \in 1..n |-> quoteIdent(columns[c])], <<",", " ">>)
                     \o <<")", " ", "V", "A", "L", "U", "E", "S", " ">>
                     \o Join([r \in 1..Len(rows) |->
                                <<"(">> \o Join([c \in 1..n |->
                                               Placeholder((r - 1) * n + c)], <<",", " ">>)
                                \o <<")">>], <<",", " ">>)
                     \o <<" ", "R", "E", "T", "U", "R", "N", "I", "N", "G", " ", "*">>,
            values |-> Concat([r \in 1..Len(rows) |->
                         [c \in 1..n |->
                            LET v == PropGet(rows[r], columns[c])
                            IN  IF v.t = "undefined" THEN [t |-> "null", s |-> <<>>]
                                ELSE v]])]

buildUpdateQuery(table, pkValues, data) ==
  LET updateColumns ==
        SelectSeq(table.columns,
                  LAMBDA c : /\ PropGet(data, c).t # "undefined"
                             /\ \A i \in 1..Len(table.primaryKeys) :
                                  table.primaryKeys[i] # c)
      n == Len(updateColumns)
      where == PkClauses(table, pkValues, n + 1)
  IN  IF n = 0 THEN Threw
      ELSE [ok |-> TRUE,
            text |-> <<"U", "P", "D", "A", "T", "E", " ">> \o table.fqn \o <<" ", "S", "E", "T", " ">>
                     \o Join([i \in 1..n |->
                                quoteIdent(updateColumns[i]) \o <<" ", "=", " ">> \o Placeholder(i)],
                             <<",", " ">>)
                     \o <<" ", "W", "H", "E", "R", "E", " ">> \o where.text \o <<" ", "R", "E", "T", "U", "R", "N", "I", "N", "G", " ", "*">>,
            values |-> [i \in 1..n |-> PropGet(data, updateColumns[i])] \o where.values]

buildDeleteQuery(table, pkValues) ==
  LET where == PkClauses(table, pkValues, 1)
  IN  [ok |-> TRUE,
       text |-> <<"D", "E", "L", "E", "T", "E", " ", "F", "R", "O", "M", " ">> \o table.fqn \o <<" ", "W", "H", "E", "R", "E", " ">> \o where.text
                \o <<" ", "R", "E", "T", "U", "R", "N", "I", "N", "G", " ", "*">>,
       values |-> where.values]


\* ------------------------------------------------------------------------
\* Calls of the query builder with untrusted values
\* ------------------------------------------------------------------------

\* Largest number of rows in a bulk insert drawn by the model.
MaxRows == 2

\* The untrusted strings of the model: a quote-breaking value with a colon
\* in it and a LIKE pattern. No column, table or keyword contains either.
Markers == { <<"z", ":", "'">>, <<"%", "q">> }

RawFilters ==
  { <<"z", ":", "'">>, <<"%", "q">>, <<"l", "i", "k", "e", ":", "%", "q">>, <<"i", "n", ":", "z", ":", "'", ",", "%", "q">>, <<"i", "s", ":", "n", "u", "l", "l">>, <<"i", "s", ":", "%", "q">>, <<"n", "e", "q", ":", "z", ":", "'">>,
    <<"c", "o", "n", "s", "t", "r", "u", "c", "t", "o", "r", ":", "%", "q">>, <<":", "%", "q">> }

\* list options. Filter objects have a column of the table or an untrusted
\* name as keys; they are drawn with every search, the sort, selection and
\* search options with each other, and page and pageSize (absent, below 1,
\* inside and above the limits) with a filter and a search.
ListInputs(table) ==
  LET number(n) == [t |-> "number", n |-> n]
      options(pg, sort, filters, search, select) ==
        [page |-> pg[1], pageSize |-> pg[2], sortBy |-> sort[1], sortOrder |-> sort[2],
         filters |-> filters, search |-> search[1], searchColumns |-> search[2],
         select |-> select]
      unpaged == <<JsUndefined, JsUndefined>>
      paging == { <<number(0), number(0)>>, <<number(2), JsUndefined>>,
                  <<number(2), number(3)>>, <<number(0 - 1), number(3)>>,
                  <<number(3), number(0 - 5)>>, <<number(2), number(MaxPageSize + 1)>> }
      sorts == { <<<<>>, <<"a", "s", "c">>>>, <<<<"z", ":", "'">>, <<"a", "s", "c">>>>, <<table.columns[1], <<"d", "e", "s", "c">>>> }
      searches == { <<<<>>, <<>>>>, <<<<"%", "q">>, <<table.columns[1], <<"z", ":", "'">>>>>>,
                    <<<<"%", "q">>, <<<<"z", ":", "'">>>>>> }
      selects == { <<>>, <<table.columns[1], <<"z", ":", "'">>>>, <<<<"z", ":", "'">>>> }
      one == <<Entry(table.columns[1], <<"l", "i", "k", "e", ":", "%", "q">>)>>
      filterInputs ==
        {<<>>}
        \cup { <<Entry(k, r)>> : k \in {table.columns[1], <<"z", ":", "'">>}, r \in RawFilters }
        \cup { <<Entry(table.columns[1], r1), Entry(table.columns[Len(table.columns)], r2)>> :
                 r1 \in IF Len(table.columns) > 1 THEN RawFilters ELSE {},
                 r2 \in {<<"z", ":", "'">>, <<"i", "n", ":", "z", ":", "'", ",", "%", "q">>} }
  IN  { options(unpaged, <<<<>>, <<"a", "s", "c">>>>, filters, search, <<>>) :
          filters \in filterInputs, search \in searches }
      \cup { options(unpaged, sort, filters, search, select) :
               sort \in sorts, filters \in {<<>>, one}, search \in searches,
               select \in selects }
      \cup { options(pg, <<<<>>, <<"a", "s", "c">>>>, filters, search, <<>>) :
               pg \in paging, filters \in {<<>>, one},
               search \in { <<<<>>, <<>>>>, <<<<"%", "q">>, <<table.columns[1]>>>> } }

\* key values by key column, all present or all missing
PkInputs(table) ==
  {<<>>}
  \cup { [i \in 1..Len(table.primaryKeys) |-> Entry(table.primaryKeys[i], m)] :
           m \in Markers }

\* payload objects: known and unknown keys carrying untrusted values
DataInputs(table) ==
  { <<Entry(table.columns[1], <<"z", ":", "'">>)>>,
    <<Entry(table.columns[Len(table.columns)], <<"%", "q">>)>>,
    <<Entry(<<"z", ":", "'">>, <<"%", "q">>)>>,
    <<Entry(table.columns[Len(table.columns)], <<"z", ":", "'">>), Entry(<<"%", "q">>, <<"z", ":", "'">>)>> }

\* the tables the builders are called with: the fixtures and a table whose
\* name and second column have a double quote in them
QueryTables ==
  Tables \cup { TableInfo(Public, <<"o", "\"", "k">>, <<<<"i", "d">>, <<"c", "\"", "d">>>>, <<<<"i", "d">>>>) }

BuildSelect ==
  \E table \in QueryTables : \E opts \in ListInputs(table) :
    /\ QueryIdle
    /\ query' = [op |-> "select", table |-> table, input |-> opts] @@ buildSelectQuery(table, opts)
    /\ QueryFrame

BuildCount ==
  \E table \in QueryTables : \E opts \in ListInputs(table) :
    /\ QueryIdle
    /\ query' = [op |-> "count", table |-> table, input |-> opts] @@ buildCountQuery(table, opts)
    /\ QueryFrame

BuildSelectByPk ==
  \E table \in QueryTables : \E pk \in PkInputs(table) :
    \E select \in { <<>>, <<table.columns[1], <<"z", ":", "'">>>>, <<<<"z", ":", "'">>>> } :
      /\ QueryIdle
      /\ query' = [op |-> "selectByPk", table |-> table, input |-> [pk |-> pk, select |-> select]] @@ buildSelectByPkQuery(table, pk, select)
      /\ QueryFrame

BuildInsert ==
  \E table \in QueryTables : \E data \in DataInputs(table) :
    /\ QueryIdle
    /\ query' = [op |-> "insert", table |-> table, input |-> data] @@ buildInsertQuery(table, data)
    /\ QueryFrame

BuildBulkInsert ==
  \E table \in QueryTables :
    \E rows \in UNION { [1..n -> DataInputs(table)] : n \in 0..MaxRows } :
      /\ QueryIdle
      /\ query' = [op |-> "bulkInsert", table |-> table, input |-> rows] @@ buildBulkInsertQuery(table, rows)
      /\ QueryFrame

BuildUpdate ==
  \E table \in QueryTables : \E pk \in PkInputs(table) : \E data \in DataInputs(table) :
    /\ QueryIdle
    /\ query' = [op |-> "update", table |-> table, input |-> [pk |-> pk, data |-> data]] @@ buildUpdateQuery(table, pk, data)
    /\ QueryFrame

BuildDelete ==
  \E table \in QueryTables : \E pk \in PkInputs(table) :
    /\ QueryIdle
    /\ query' = [op |-> "delete", table |-> table, input |-> pk] @@ buildDeleteQuery(table, pk)
    /\ QueryFrame

NextQuery ==
  \/ BuildSelect
  \/ BuildCount
  \/ BuildSelectByPk
  \/ BuildInsert
  \/ BuildBulkInsert
  \/ BuildUpdate
  \/ BuildDelete

SpecQuery == Init /\ [][NextQuery]_vars

\* C1: in the statement of every query-builder operation no filter value,
\* search term, key value or payload value occurs in the SQL text; the text
\* refers to the values only through the placeholders $1..$n, n being the
\* length of the values array.
C1_ValuesOnlyBound ==
  query.ok =>
    /\ \A m \in Markers : ~Contains(query.text, m)
    /\ \A k \in 1..Len(query.values) : Contains(query.text, Placeholder(k))
    /\ ~Contains(query.text, Placeholder(Len(query.values) + 1))
    /\ \A i \in 1..Len(query.text) :
         query.text[i] = "$" =>
           i < Len(query.text) /\ CharCode(query.text[i + 1]) \in 49..57

\* a list statement with a filter and a search term whose untrusted values,
\* the quote-breaking one included, are all in the values array
C1_Witness ==
  /\ query.ok
  /\ query.op = "select"
  /\ Contains(query.text, <<" ", "W", "H", "E", "R", "E", " ">>)
  /\ Contains(query.text, <<"I", "L", "I", "K", "E">>)
  /\ \E i \in 1..Len(query.values) : query.values[i].s = <<"z", ":", "'">>
  /\ \E i \in 1..Len(query.values) : query.values[i].s = <<"%", "\\", "%", "q", "%">>

\* ------------------------------------------------------------------------
\* Authentication hook (src/auth/api-key.ts, registerAuthHook)
\* ------------------------------------------------------------------------

PUBLIC_PATHS == { <<"/", "a", "p", "i", "/", "_", "h", "e", "a", "l", "t", "h">>, <<"/", "d", "o", "c", "s">> }

\* a variant that looks for the public prefixes anywhere in the URL
isPublicPathAnywhere(url) == \E p \in PUBLIC_PATHS : Contains(url, p)

isPublicPath(url) ==
  LET path == Split(url, "?")[1]
  IN  \E p \in PUBLIC_PATHS : path = p \/ StartsWith(path, p \o <<"/">>)

\* s.trim()
Trim(s) ==
  LET kept == { i \in 1..Len(s) : s[i] # " " }
  IN  IF kept = {} THEN <<>>
      ELSE SubSeq(s, CHOOSE i \in kept : \A j \in kept : i <= j,
                     CHOOSE i \in kept : \A j \in kept : i >= j)

\* the key a request carries; the empty string stands for null as well,
\* the hook tests the result with !key
extractApiKey(request) ==
  IF StartsWith(request.authorization, <<"B", "e", "a", "r", "e", "r", " ">>)
  THEN Trim(SliceFrom(request.authorization, 7))
  ELSE IF Len(request.xApiKey) > 0 THEN Trim(request.xApiKey)
  ELSE <<>>

\* the onRequest hook: status 0 lets the request continue, 401 answers it.
\* main() registers the hook only when config.apiKeysEnabled.
authHook(request) ==
  IF ~config.apiKeysEnabled \/ isPublicPath(request.url)
  THEN [status |-> 0, permissions |-> JsUndefined]
  ELSE LET decide(key, result) ==
             IF key = <<>> THEN [status |-> 401, permissions |-> JsUndefined]
             ELSE IF ~result.valid THEN [status |-> 401, permissions |-> JsUndefined]
             ELSE [status |-> 0, permissions |-> result.permissions]
       IN  decide(extractApiKey(request), verifyApiKey(extractApiKey(request), Secret))

\* ------------------------------------------------------------------------
\* Routing and validation (Fastify, src/routes/crud.ts, src/routes/schema.ts)
\* ------------------------------------------------------------------------

findTable(routePath) ==
  IF \E t \in Tables : t.routePath = routePath
  THEN CHOOSE t \in Tables : t.routePath = routePath
  ELSE JsUndefined

\* the route Fastify selects for a method and URL: static routes first, then
\* the per-table routes registered by registerCrudRoutes
Route(method, url) ==
  LET match(path, queryString, seg, n, table) ==
        LET found(kind) == [kind |-> kind, table |-> table, query |-> queryString,
                            param |-> IF n >= 4 THEN seg[n] ELSE <<>>]
        IN  IF method = "GET" /\ path = <<"/", "a", "p", "i", "/", "_", "h", "e", "a", "l", "t", "h">> THEN found("health")
          ELSE IF method = "GET" /\ (path = <<"/", "d", "o", "c", "s">> \/ StartsWith(path, <<"/", "d", "o", "c", "s", "/">>))
          THEN found("docs")
          ELSE IF method = "GET" /\ path = <<"/", "a", "p", "i", "/", "_", "m", "e", "t", "a", "/", "t", "a", "b", "l", "e", "s">> THEN found("metaTables")
          ELSE IF method = "GET" /\ n = 5 /\ StartsWith(path, <<"/", "a", "p", "i", "/", "_", "m", "e", "t", "a", "/", "t", "a", "b", "l", "e", "s", "/">>) /\ seg[5] # <<>>
          THEN found("metaTable")
          ELSE IF method = "GET" /\ path = <<"/", "a", "p", "i", "/", "_", "s", "c", "h", "e", "m", "a">> THEN found("schemaList")
          ELSE IF method = "GET" /\ n = 4 /\ StartsWith(path, <<"/", "a", "p", "i", "/", "_", "s", "c", "h", "e", "m", "a", "/">>) /\ seg[4] # <<>>
          THEN found("schemaTable")
          ELSE IF n = 3 /\ table # JsUndefined /\ method \in {"GET", "POST"}
          THEN found(IF method = "GET" THEN "list" ELSE "create")
          ELSE IF /\ n = 4 /\ table # JsUndefined /\ seg[4] # <<>>
                  /\ method \in {"GET", "PUT", "PATCH", "DELETE"}
                  /\ table.primaryKeys # <<>>
          THEN found(CASE method = "GET" -> "getByPk" [] method = "PUT" -> "put"
                       [] method = "PATCH" -> "patch" [] OTHER -> "delete")
          ELSE found("notFound")
      segments(path, queryString, seg) ==
        match(path, queryString, seg, Len(seg),
              IF Len(seg) >= 3 /\ seg[2] = <<"a", "p", "i">> THEN findTable(seg[3])
              ELSE JsUndefined)
      split(q) ==
        segments(IF q < 0 THEN url ELSE Slice(url, 0, q),
                 IF q < 0 THEN <<>> ELSE SliceFrom(url, q + 1),
                 Split(IF q < 0 THEN url ELSE Slice(url, 0, q), "/"))
  IN  split(IndexOf(url, "?"))

\* the query object Fastify hands to validation and to the handler; the
\* model's URLs carry no percent-escapes
parseQuerystring(queryString) ==
  IF queryString = <<>> THEN <<>>
  ELSE LET parts == Split(queryString, "&")
       IN  AsSeq([i \in 1..Len(parts) |->
                    LET eq == IndexOf(parts[i], "=")
                    IN  IF eq < 0 THEN Entry(parts[i], <<>>)
                        ELSE Entry(Slice(parts[i], 0, eq), SliceFrom(parts[i], eq + 1))])

RECURSIVE ToNumber(_)
\* Number(s) for an unsigned decimal numeral; -1 stands for NaN
ToNumber(s) ==
  IF s = <<>> \/ CharCode(s[Len(s)]) \notin 48..57 THEN -1
  ELSE IF Len(s) = 1 THEN CharCode(s[1]) - 48
  ELSE LET head == ToNumber(SubSeq(s, 1, Len(s) - 1))
       IN  IF head < 0 THEN -1 ELSE head * 10 + CharCode(s[Len(s)]) - 48

\* the querystring schema of the list route (page, pageSize, sortBy,
\* sortOrder; additionalProperties: true)
validateQuerystring(table, q) ==
  LET has(k) == PropGet(q, k).t = "string"
      val(k) == PropGet(q, k).s
  IN  /\ has(<<"p", "a", "g", "e">>) => ToNumber(val(<<"p", "a", "g", "e">>)) >= 1
      /\ has(<<"p", "a", "g", "e", "S", "i", "z", "e">>) => ToNumber(val(<<"p", "a", "g", "e", "S", "i", "z", "e">>)) \in 1..MaxPageSize
      /\ has(<<"s", "o", "r", "t", "B", "y">>) => val(<<"s", "o", "r", "t", "B", "y">>) \in Range(table.columns)
      /\ has(<<"s", "o", "r", "t", "O", "r", "d", "e", "r">>) => val(<<"s", "o", "r", "t", "O", "r", "d", "e", "r">>) \in {<<"a", "s", "c">>, <<"d", "e", "s", "c">>}

\* properties and required of the body schema. In the tables of the model
\* every column is NOT NULL and a sole key column is a serial with a default.
buildJsonSchemaForTable(table, mode) ==
  LET isPk(c) == c \in Range(table.primaryKeys)
      hasDefault(c) == isPk(c) /\ Len(table.primaryKeys) = 1
      properties == { c \in Range(table.columns) :
                        /\ ~(mode = "insert" /\ isPk(c) /\ hasDefault(c))
                        /\ ~(mode \in {"update", "put"} /\ isPk(c)) }
  IN  [properties |-> properties,
       required |-> { c \in properties :
                        (mode = "insert" /\ ~hasDefault(c)) \/ mode = "put" }]

\* Ajv on a body: an object with no additional property and every required
\* one; an array passes the create schema when it has 1..maxBulkInsertRows
\* such rows (oneOf). Value types are not part of the model.
validateBody(table, mode, body) ==
  LET schema == buildJsonSchemaForTable(table, mode)
      row(e) == Keys(e) \subseteq schema.properties /\ schema.required \subseteq Keys(e)
  IN  IF body.t = "object" THEN row(body.e)
      ELSE /\ body.t = "array" /\ mode = "insert"
           /\ Len(body.rows) \in 1..MaxBulkInsertRows
           /\ \A i \in 1..Len(body.rows) : row(body.rows[i])

\* a parser that takes every key segment whole, as the value of the first
\* key column
buildPkParamsWhole(table, id) == JsObject(<<Entry(table.primaryKeys[1], id)>>)

\* key values by key column from the :id parameter, or null
buildPkParams(table, id) ==
  IF Len(table.primaryKeys) = 1 THEN JsObject(<<Entry(table.primaryKeys[1], id)>>)
  ELSE LET parts == Split(id, ",")
       IN  IF \/ Len(parts) # Len(table.primaryKeys)
              \/ \E i \in 1..Len(parts) : Trim(parts[i]) = <<>>
           THEN JsNull
           ELSE JsObject([i \in 1..Len(parts) |-> Entry(table.primaryKeys[i], parts[i])])

\* the key segments the model sends: one part, two parts, an empty part
KeySegments == { <<"7">>, <<"1", ",", "2">>, <<"1", ",">> }

\* hasSoftDelete(table): whether the table has a deleted_at column
hasSoftDelete(table) == <<"d", "e", "l", "e", "t", "e", "d", "_", "a", "t">> \in Range(table.columns)

\* a server whose reads go to the primary pool whatever is configured
readPoolAlwaysPrimary == "primary"

\* the pool of read statements: the replica pool when DATABASE_READ_URL is
\* configured, else the primary pool itself
readPool == IF config.readReplica THEN "replica" ELSE "primary"

\* ------------------------------------------------------------------------
\* Requests drawn by the model
\* ------------------------------------------------------------------------

\* Credentials a client may present, with how each was made (kind) and the
\* claims it was minted for: none, minted with the server's secret (legacy
\* and scoped, by either header), minted with another secret, and a scoped
\* token whose claims were cut out while its MAC was kept.
Credentials ==
  LET key(secret, claims) == generateApiKey(<<"s", "v", "c">>, secret, claims).key
      publicR == JsObject(<<Entry(Public, PermR)>>)
      scoped == { publicR, JsObject(<<Entry(Reporting, PermRW)>>),
                  JsObject(<<Entry(Wildcard, PermR)>>) }
      cred(kind, claims, authorization, xApiKey) ==
        [kind |-> kind, claims |-> claims, authorization |-> authorization,
         xApiKey |-> xApiKey]
      cut(k) == KEY_PREFIX \o <<"s", "v", "c">> \o SliceFrom(k, LastIndexOf(k, "."))
  IN  { cred("none", JsUndefined, <<>>, <<>>),
        cred("minted", JsNull, <<"B", "e", "a", "r", "e", "r", " ">> \o key(Secret, JsUndefined), <<>>),
        cred("minted", publicR, <<>>, key(Secret, publicR)),
        cred("forged", publicR, <<"B", "e", "a", "r", "e", "r", " ">> \o key(<<"b", "a", "d">>, publicR), <<>>),
        cred("tampered", JsNull, <<"B", "e", "a", "r", "e", "r", " ">> \o cut(key(Secret, publicR)), <<>>) }
      \cup { cred("minted", c, <<"B", "e", "a", "r", "e", "r", " ">> \o key(Secret, c), <<>>) : c \in scoped }

\* the URLs the model requests
URLs ==
  LET names == { t.routePath : t \in Tables } \cup { <<"n", "o", "p", "e">> }
  IN  { <<"/", "a", "p", "i", "/", "_", "h", "e", "a", "l", "t", "h">>, <<"/", "a", "p", "i", "/", "_", "h", "e", "a", "l", "t", "h", "z">>, <<"/", "d", "o", "c", "s">>, <<"/", "d", "o", "c", "s", "/", "j", "s", "o", "n">>, <<"/", "a", "p", "i", "/", "_", "m", "e", "t", "a", "/", "t", "a", "b", "l", "e", "s">>,
        <<"/", "a", "p", "i", "/", "_", "s", "c", "h", "e", "m", "a">>, <<"/">> }
      \cup { <<"/", "a", "p", "i", "/", "_", "m", "e", "t", "a", "/", "t", "a", "b", "l", "e", "s", "/">> \o n : n \in names }
      \cup { <<"/", "a", "p", "i", "/", "_", "s", "c", "h", "e", "m", "a", "/">> \o n : n \in names }
      \cup { <<"/", "a", "p", "i", "/">> \o n \o q : n \in names,
                                 q \in { <<>>, <<"?", "p", "a", "g", "e", "=", "2">>, <<"?", "p", "a", "g", "e", "=", "0">>, <<"?", "n", "e", "x", "t", "=", "/", "d", "o", "c", "s", "/">> } }
      \cup { <<"/", "a", "p", "i", "/">> \o n \o <<"/">> \o id : n \in names, id \in KeySegments }

\* the bodies the model sends
Bodies ==
  LET object(e) == [t |-> "object", e |-> e, rows |-> <<>>]
  IN  { [t |-> "none", e |-> <<>>, rows |-> <<>>],
        object(<<Entry(<<"n", "a", "m", "e">>, <<"n">>)>>),
        object(<<Entry(<<"v", "a", "l", "u", "e">>, <<"1">>)>>),
        object(<<Entry(<<"z", "z">>, <<"1">>)>>),
        [t |-> "array", e |-> <<>>,
         rows |-> <<<<Entry(<<"n", "a", "m", "e">>, <<"n">>)>>, <<Entry(<<"n", "a", "m", "e">>, <<"m">>)>>>>] }

\* a request: its method, URL, credential headers and body, with how the
\* credential was made and the claims it was minted for; GET and DELETE
\* carry no body
Request(method, url, c, body) ==
  [method |-> method, url |-> url, authorization |-> c.authorization,
   xApiKey |-> c.xApiKey, cred |-> c.kind, claims |-> c.claims,
   body |-> IF method \in {"GET", "DELETE"}
            THEN [t |-> "none", e |-> <<>>, rows |-> <<>>] ELSE body]

\* ------------------------------------------------------------------------
\* REST surface
\* ------------------------------------------------------------------------

\* main(): read the configuration, register the hook and the routes, listen.
\* EXPOSE_DB_ERRORS is "true" or not, as exposing allows.
BootWith(exposing) ==
  /\ ~config.booted
  /\ \E readReplica \in BOOLEAN, apiKeysEnabled \in BOOLEAN, exposeDbErrors \in exposing :
       config' = [booted |-> TRUE, readReplica |-> readReplica,
                  apiKeysEnabled |-> apiKeysEnabled, exposeDbErrors |-> exposeDbErrors]
  /\ UNCHANGED <<minted, presented, verdict, permCall, query, exchange, sessions, history, introspection, handlers, transports, process>>

\* main() with EXPOSE_DB_ERRORS unset: the requests of the REST and tool
\* specifications are answered without a statement failing, and no handler
\* reads the flag before one does
Boot == BootWith({FALSE})

RestFrame ==
  UNCHANGED <<minted, presented, verdict, permCall, query, config, sessions, history, introspection, handlers, transports, process>>

\* reply.status(status).send(...), with the statements issued before it
Reply(status, statements, listing) ==
  [status |-> status, statements |-> statements, listing |-> listing]

\* a lifecycle in which a refusing hook or validator still lets the handler run
LifecycleHandlerAlways(request, route, hook, valid, reply) ==
  [surface |-> "rest", request |-> request, route |-> route.kind,
   permissions |-> hook.permissions]
  @@ (IF hook.status # 0 THEN [reply EXCEPT !.status = 401]
      ELSE IF ~valid THEN [reply EXCEPT !.status = 400]
      ELSE reply)

\* the Fastify lifecycle of one request: the onRequest hook, then schema
\* validation, then the route handler; the first to answer ends it
Lifecycle(request, route, hook, valid, reply) ==
  [surface |-> "rest", request |-> request, route |-> route.kind,
   permissions |-> hook.permissions]
  @@ (IF hook.status # 0 THEN Reply(401, <<>>, {})
      ELSE IF ~valid THEN Reply(400, <<>>, {})
      ELSE reply)

Health ==
  /\ config.booted /\ exchange.surface = "none"
  /\ \E method \in {"GET", "POST", "PUT", "PATCH", "DELETE"}, url \in URLs :
     \E route \in {Route(method, url)} :
       /\ route.kind = "health"
       /\ \E credential \in Credentials, payload \in Bodies, up \in BOOLEAN :
          \E request \in {Request(method, url, credential, payload)} :
          \E hook \in {authHook(request)} :
            LET select1 == [pool |-> "primary", ok |-> TRUE, text |-> <<"S", "E", "L", "E", "C", "T", " ", "1">>, values |-> <<>>]
            IN  /\ exchange' = Lifecycle(request, route, hook, TRUE,
                                 Reply(IF up THEN 200 ELSE 503, <<select1>>, {}))
                /\ RestFrame

Docs ==
  /\ config.booted /\ exchange.surface = "none"
  /\ \E method \in {"GET", "POST", "PUT", "PATCH", "DELETE"}, url \in URLs :
     \E route \in {Route(method, url)} :
       /\ route.kind = "docs"
       /\ \E credential \in Credentials, payload \in Bodies :
          \E request \in {Request(method, url, credential, payload)} :
          \E hook \in {authHook(request)} :
             /\ exchange' = Lifecycle(request, route, hook, TRUE,
                              Reply(200, <<>>, {}))
             /\ RestFrame

NotFound ==
  /\ config.booted /\ exchange.surface = "none"
  /\ \E method \in {"GET", "POST", "PUT", "PATCH", "DELETE"}, url \in URLs :
     \E route \in {Route(method, url)} :
       /\ route.kind = "notFound"
       /\ \E credential \in Credentials, payload \in Bodies :
          \E request \in {Request(method, url, credential, payload)} :
          \E hook \in {authHook(request)} :
             /\ exchange' = Lifecycle(request, route, hook, TRUE,
                              Reply(404, <<>>, {}))
             /\ RestFrame

MetaTables ==
  /\ config.booted /\ exchange.surface = "none"
  /\ \E method \in {"GET", "POST", "PUT", "PATCH", "DELETE"}, url \in URLs :
     \E route \in {Route(method, url)} :
       /\ route.kind = "metaTables"
       /\ \E credential \in Credentials, payload \in Bodies :
          \E request \in {Request(method, url, credential, payload)} :
          \E hook \in {authHook(request)} :
             /\ exchange' = Lifecycle(request, route, hook, TRUE,
                  Reply(200, <<>>, { t.routePath : t \in { u \in Tables :
                                        hasAnyPermission(hook.permissions, u.schema) } }))
             /\ RestFrame

MetaTable ==
  /\ config.booted /\ exchange.surface = "none"
  /\ \E method \in {"GET", "POST", "PUT", "PATCH", "DELETE"}, url \in URLs :
     \E route \in {Route(method, url)} :
       /\ route.kind = "metaTable"
       /\ \E credential \in Credentials, payload \in Bodies :
          \E request \in {Request(method, url, credential, payload)} :
          \E hook \in {authHook(request)} :
            LET tableInfo == findTable(route.param)
            IN  /\ exchange' = Lifecycle(request, route, hook, TRUE,
                     IF tableInfo = JsUndefined
                        \/ ~hasAnyPermission(hook.permissions, tableInfo.schema)
                     THEN Reply(404, <<>>, {})
                     ELSE Reply(200, <<>>, {tableInfo.routePath}))
                /\ RestFrame

SchemaList ==
  /\ config.booted /\ exchange.surface = "none"
  /\ \E method \in {"GET", "POST", "PUT", "PATCH", "DELETE"}, url \in URLs :
     \E route \in {Route(method, url)} :
       /\ route.kind = "schemaList"
       /\ \E credential \in Credentials, payload \in Bodies :
          \E request \in {Request(method, url, credential, payload)} :
          \E hook \in {authHook(request)} :
             /\ exchange' = Lifecycle(request, route, hook, TRUE,
                  Reply(200, <<>>, { t.routePath : t \in { u \in Tables :
                                        hasAnyPermission(hook.permissions, u.schema) } }))
             /\ RestFrame

SchemaTable ==
  /\ config.booted /\ exchange.surface = "none"
  /\ \E method \in {"GET", "POST", "PUT", "PATCH", "DELETE"}, url \in URLs :
     \E route \in {Route(method, url)} :
       /\ route.kind = "schemaTable"
       /\ \E credential \in Credentials, payload \in Bodies :
          \E request \in {Request(method, url, credential, payload)} :
          \E hook \in {authHook(request)} :
            LET tableSchema == findTable(route.param)
            IN  /\ exchange' = Lifecycle(request, route, hook, TRUE,
                     IF tableSchema = JsUndefined
                        \/ ~hasAnyPermission(hook.permissions, tableSchema.schema)
                     THEN Reply(404, <<>>, {})
                     ELSE Reply(200, <<>>, {tableSchema.routePath}))
                /\ RestFrame

List ==
  /\ config.booted /\ exchange.surface = "none"
  /\ \E method \in {"GET", "POST", "PUT", "PATCH", "DELETE"}, url \in URLs :
     \E route \in {Route(method, url)} :
       /\ route.kind = "list"
       /\ \E credential \in Credentials, payload \in Bodies :
          \E request \in {Request(method, url, credential, payload)} :
          \E table \in {route.table}, hook \in {authHook(request)},
             q \in {parseQuerystring(route.query)} :
          LET val(k) == PropGet(q, k).s
              number(k, default) == IF ToNumber(val(k)) <= 0 THEN default ELSE ToNumber(val(k))
              named == SelectSeq(q, LAMBDA e : StartsWith(e.k, <<"f", "i", "l", "t", "e", "r", ".">>))
              trimmed == LET parts == Split(val(<<"s", "e", "l", "e", "c", "t">>), ",")
                         IN  AsSeq([i \in 1..Len(parts) |-> Trim(parts[i])])
          IN  \* search and searchColumns are not among the parameters the model draws
              \E opts \in {[page |-> [t |-> "number", n |-> number(<<"p", "a", "g", "e">>, 1)],
                            pageSize |-> [t |-> "number",
                                          n |-> number(<<"p", "a", "g", "e", "S", "i", "z", "e">>, DefaultPageSize)],
                            sortBy |-> val(<<"s", "o", "r", "t", "B", "y">>), sortOrder |-> val(<<"s", "o", "r", "t", "O", "r", "d", "e", "r">>),
                            select |-> SelectSeq(trimmed, LAMBDA c : c # <<>>),
                            search |-> <<>>, searchColumns |-> <<>>,
                            filters |-> AsSeq([i \in 1..Len(named) |->
                                         Entry(SliceFrom(named[i].k, 7), named[i].v)])]} :
              \E data \in {buildSelectQuery(table, opts)},
                 count \in {buildCountQuery(table, opts)} :
                /\ exchange' = Lifecycle(request, route, hook, validateQuerystring(table, q),
                     IF ~hasPermission(hook.permissions, table.schema, PermR)
                     THEN Reply(403, <<>>, {})
                     ELSE IF ~data.ok THEN Reply(400, <<>>, {})
                     ELSE IF ~count.ok THEN Reply(400, <<[pool |-> readPool] @@ data>>, {})
                     ELSE Reply(200, <<[pool |-> readPool] @@ data,
                                       [pool |-> readPool] @@ count>>, {}))
                /\ RestFrame

GetByPk ==
  /\ config.booted /\ exchange.surface = "none"
  /\ \E method \in {"GET", "POST", "PUT", "PATCH", "DELETE"}, url \in URLs :
     \E route \in {Route(method, url)} :
       /\ route.kind = "getByPk"
       /\ \E credential \in Credentials, payload \in Bodies, found \in BOOLEAN :
          \E request \in {Request(method, url, credential, payload)} :
          \E table \in {route.table}, hook \in {authHook(request)},
             parts \in {Split(PropGet(parseQuerystring(route.query), <<"s", "e", "l", "e", "c", "t">>).s, ",")} :
          \E select \in {SelectSeq(AsSeq([i \in 1..Len(parts) |-> Trim(parts[i])]),
                                   LAMBDA c : c # <<>>)},
             pkValues \in {buildPkParams(table, route.param)} :
          \E statement \in {IF pkValues = JsNull THEN [ok |-> FALSE]
                            ELSE buildSelectByPkQuery(table, pkValues.e, select)} :
            /\ exchange' = Lifecycle(request, route, hook, TRUE,
                 IF ~hasPermission(hook.permissions, table.schema, PermR)
                 THEN Reply(403, <<>>, {})
                 ELSE IF pkValues = JsNull THEN Reply(400, <<>>, {})
                 ELSE IF ~statement.ok THEN Reply(400, <<>>, {})
                 ELSE Reply(IF found THEN 200 ELSE 404,
                            <<[pool |-> readPool] @@ statement>>, {}))
            /\ RestFrame

Create ==
  /\ config.booted /\ exchange.surface = "none"
  /\ \E method \in {"GET", "POST", "PUT", "PATCH", "DELETE"}, url \in URLs :
     \E route \in {Route(method, url)} :
       /\ route.kind = "create"
       /\ \E credential \in Credentials, payload \in Bodies :
          \E request \in {Request(method, url, credential, payload)} :
          \E table \in {route.table}, hook \in {authHook(request)},
             content \in {request.body} :
          \E valid \in {validateBody(table, "insert", content)} :
          \E statement \in {IF ~valid THEN [ok |-> FALSE]
                            ELSE IF content.t = "array"
                                 THEN buildBulkInsertQuery(table, content.rows)
                                 ELSE buildInsertQuery(table, content.e)} :
            /\ exchange' = Lifecycle(request, route, hook, valid,
                 IF ~hasPermission(hook.permissions, table.schema, PermW)
                 THEN Reply(403, <<>>, {})
                 ELSE IF ~statement.ok THEN Reply(400, <<>>, {})
                 ELSE Reply(201, <<[pool |-> "primary"] @@ statement>>, {}))
            /\ RestFrame

\* updateHandler, behind PUT (putSchema) and PATCH (patchSchema)
Update ==
  /\ config.booted /\ exchange.surface = "none"
  /\ \E method \in {"GET", "POST", "PUT", "PATCH", "DELETE"}, url \in URLs :
     \E route \in {Route(method, url)} :
       /\ route.kind \in {"put", "patch"}
       /\ \E credential \in Credentials, payload \in Bodies, found \in BOOLEAN :
          \E request \in {Request(method, url, credential, payload)} :
          \E table \in {route.table}, hook \in {authHook(request)},
             content \in {request.body} :
          \E valid \in {validateBody(table, IF route.kind = "put" THEN "put" ELSE "update",
                                     content)},
             pkValues \in {buildPkParams(table, route.param)} :
          \E statement \in {IF ~valid \/ pkValues = JsNull THEN [ok |-> FALSE]
                            ELSE buildUpdateQuery(table, pkValues.e, content.e)} :
            /\ exchange' = Lifecycle(request, route, hook, valid,
                 IF ~hasPermission(hook.permissions, table.schema, PermW)
                 THEN Reply(403, <<>>, {})
                 ELSE IF pkValues = JsNull THEN Reply(400, <<>>, {})
                 ELSE IF ~statement.ok THEN Reply(400, <<>>, {})
                 ELSE Reply(IF found THEN 200 ELSE 404,
                            <<[pool |-> "primary"] @@ statement>>, {}))
            /\ RestFrame

Delete ==
  /\ config.booted /\ exchange.surface = "none"
  /\ \E method \in {"GET", "POST", "PUT", "PATCH", "DELETE"}, url \in URLs :
     \E route \in {Route(method, url)} :
       /\ route.kind = "delete"
       /\ \E credential \in Credentials, payload \in Bodies, found \in BOOLEAN :
          \E request \in {Request(method, url, credential, payload)} :
          \E table \in {route.table}, hook \in {authHook(request)} :
          \E pkValues \in {buildPkParams(table, route.param)} :
          \E statement \in {IF pkValues = JsNull THEN [ok |-> FALSE]
                            ELSE buildDeleteQuery(table, pkValues.e)} :
            /\ exchange' = Lifecycle(request, route, hook, TRUE,
                 IF ~hasPermission(hook.permissions, table.schema, PermW)
                 THEN Reply(403, <<>>, {})
                 ELSE IF pkValues = JsNull THEN Reply(400, <<>>, {})
                 ELSE IF ~statement.ok THEN Reply(400, <<>>, {})
                 ELSE IF ~found
                 THEN Reply(404, <<[pool |-> "primary"] @@ statement>>, {})
                 \* { deleted: true, softDelete: isSoftDelete, record }
                 ELSE [softDelete |-> hasSoftDelete(table)]
                      @@ Reply(200, <<[pool |-> "primary"] @@ statement>>, {}))
            /\ RestFrame

NextRest ==
  \/ Boot
  \/ Health
  \/ Docs
  \/ NotFound
  \/ MetaTables
  \/ MetaTable
  \/ SchemaList
  \/ SchemaTable
  \/ List
  \/ GetByPk
  \/ Create
  \/ Update
  \/ Delete

SpecRest == Init /\ [][NextRest]_vars

\* ------------------------------------------------------------------------
\* Claims about the REST surface
\* ------------------------------------------------------------------------

\* C2: when credentials are enabled, a request whose credential is missing
\* or does not verify (none presented, minted under another secret, claims
\* altered) is answered 401 with nothing done for it, unless its path is the
\* health path, the documentation path or below one of them; only such a
\* public path is let through without a verified credential.
C2_UnverifiedOnlyPublic ==
  LET url == exchange.request.url
      q == IndexOf(url, "?")
      seg == Split(IF q < 0 THEN url ELSE Slice(url, 0, q), "/")
      public == \/ Len(seg) >= 2 /\ seg[1] = <<>> /\ seg[2] = <<"d", "o", "c", "s">>
                \/ Len(seg) >= 3 /\ seg[1] = <<>> /\ seg[2] = <<"a", "p", "i">> /\ seg[3] = <<"_", "h", "e", "a", "l", "t", "h">>
  IN  (/\ exchange.surface = "rest"
       /\ config.apiKeysEnabled
       /\ exchange.request.cred # "minted"
       /\ ~public)
      => /\ exchange.status = 401
         /\ exchange.statements = <<>>
         /\ exchange.listing = {}

\* a list request for an entity, carrying a query string that names the
\* documentation path and a token minted under another secret, answered 401
C2_Witness ==
  /\ exchange.surface = "rest"
  /\ config.apiKeysEnabled
  /\ exchange.request.cred = "forged"
  /\ exchange.request.url = <<"/", "a", "p", "i", "/", "u", "s", "e", "r", "s", "?", "n", "e", "x", "t", "=", "/", "d", "o", "c", "s", "/">>
  /\ exchange.route = "list"
  /\ exchange.status = 401

\* C3: every REST entity operation asked with a valid credential that lacks
\* the access the operation requires on the entity's namespace (read for list
\* and read-by-key, write for create, replace, patch and delete) is answered
\* 403.
C3_LackingAccessAnswered403 ==
  LET request == exchange.request
      table == Route(request.method, request.url).table
      required == IF exchange.route \in {"list", "getByPk"} THEN PermR ELSE PermW
  IN  (/\ exchange.surface = "rest"
       /\ config.apiKeysEnabled
       /\ exchange.route \in {"list", "getByPk", "create", "put", "patch", "delete"}
       /\ request.cred = "minted"
       /\ ~DocumentedPermission(request.claims, table.schema, required))
      => exchange.status = 403

\* C7: for a scoped credential the meta table listing and the schema listing
\* hold exactly the entities of the namespaces on which its claims give read
\* or write access, and the meta and schema detail routes answer 404 for an
\* entity of any other namespace, as they do for one that does not exist.
C7_ListingsMatchAccess ==
  LET request == exchange.request
      access(t) == \/ DocumentedPermission(request.claims, t.schema, PermR)
                   \/ DocumentedPermission(request.claims, t.schema, PermW)
      named == findTable(Route(request.method, request.url).param)
  IN  (/\ exchange.surface = "rest"
       /\ config.apiKeysEnabled
       /\ request.cred = "minted"
       /\ request.claims.t = "object")
      => /\ exchange.route \in {"metaTables", "schemaList"} =>
              exchange.listing = { t.routePath : t \in { u \in Tables : access(u) } }
         /\ (/\ exchange.route \in {"metaTable", "schemaTable"}
             /\ (named = JsUndefined \/ ~access(named)))
            => exchange.status = 404 /\ exchange.listing = {}

\* ------------------------------------------------------------------------
\* Agent surface: the /mcp routes (src/mcp/routes.ts) and the tools,
\* resources and prompts of a session's server (src/mcp/server.ts)
\* ------------------------------------------------------------------------

\* /mcp requests: a method, the mcp-session-id header (0 when absent) and a
\* credential: none, or a token scoped to one namespace
McpRequests(method) ==
  { [method |-> method, url |-> <<"/", "m", "c", "p">>, authorization |-> c.authorization,
     xApiKey |-> c.xApiKey, cred |-> c.kind, claims |-> c.claims,
     sessionId |-> sessionId] :
      c \in { d \in Credentials :
                \/ d.kind = "none"
                \/ /\ d.kind = "minted" /\ d.xApiKey = <<>> /\ d.claims.t = "object"
                   /\ Wildcard \notin Keys(d.claims.e) },
      sessionId \in 0..MaxSessions }

\* The model answers agent requests one after another. A refused request,
\* a stream request and a call of a tool, resource or prompt leave the
\* session table as they found it, so the next request is taken from the
\* state they started in; the requests that changed the table are followed.
Listening ==
  /\ config.booted
  /\ \/ exchange.surface = "none"
     \/ /\ exchange.surface = "mcp"
        /\ exchange.route \in {"initialize", "DELETE", "close"}
        /\ exchange.status \in {0, 200}

\* a server that gives every session full access
fullAccess(hook) == JsNull

\* request.apiKeyPermissions ?? null
requestPermissions(hook) ==
  IF hook.permissions = JsUndefined THEN JsNull ELSE hook.permissions

\* a transport whose close leaves the session table alone
oncloseIgnored(table, sessionId) == table

\* transport.onclose of a stored session: sessions.delete(newSessionId)
onclose(table, sessionId) ==
  [i \in DOMAIN table \ {sessionId} |-> table[i]]

\* a route that finds a session under every header
hasSessionAlways(table, sessionId) == TRUE

\* sessionId && sessions.has(sessionId): the header is present (0 stands
\* for a missing header) and names a stored session
hasSession(table, sessionId) == sessionId # 0 /\ sessionId \in DOMAIN table

\* what the routes record of a request: the answer, the session that handled
\* it and the permissions that session applies
McpReply(request, route, status, session, result) ==
  [surface |-> "mcp", request |-> request, route |-> route,
   wasEnded |-> request.sessionId \in history.ended,
   status |-> status, session |-> session,
   permissions |-> IF session \in DOMAIN sessions THEN sessions[session].permissions
                   ELSE JsUndefined]
  @@ result

\* POST /mcp with an initialize request
Initialize ==
  /\ Listening
  /\ Cardinality(history.initialized) < MaxSessions
  /\ \E request \in McpRequests("POST") :
       LET hook == authHook(request)
           newSessionId == Cardinality(history.initialized) + 1
           nothing == [isError |-> TRUE, statements |-> <<>>, listing |-> {}]
       IN  IF hook.status # 0
           THEN /\ exchange' = McpReply(request, "initialize", 401, 0, nothing)
                /\ UNCHANGED <<sessions, history>>
           ELSE IF hasSession(sessions, request.sessionId)
           \* forwarded to the session's transport, which is initialized already
           THEN /\ exchange' = McpReply(request, "initialize", 400, request.sessionId, nothing)
                /\ UNCHANGED <<sessions, history>>
           ELSE /\ sessions' = [i \in DOMAIN sessions \cup {newSessionId} |->
                                  IF i = newSessionId
                                  THEN [permissions |-> requestPermissions(hook)]
                                  ELSE sessions[i]]
                /\ history' = [initialized |-> history.initialized \cup {newSessionId},
                               ended |-> history.ended,
                               claims |-> [i \in history.initialized \cup {newSessionId} |->
                                             IF i = newSessionId THEN request.claims
                                             ELSE history.claims[i]]]
                /\ exchange' = [McpReply(request, "initialize", 200, 0,
                                         [isError |-> FALSE, statements |-> <<>>,
                                          listing |-> {}])
                                EXCEPT !.session = newSessionId,
                                       !.permissions = requestPermissions(hook)]
  /\ UNCHANGED <<minted, presented, verdict, permCall, query, config, introspection, handlers, transports, process>>

\* GET /mcp: the notification stream of a session
GetStream ==
  /\ Listening
  /\ \E request \in McpRequests("GET") :
       LET hook == authHook(request)
           known == hasSession(sessions, request.sessionId)
       IN  exchange' = McpReply(request, "GET",
                                IF hook.status # 0 THEN 401 ELSE IF known THEN 200 ELSE 400,
                                IF hook.status = 0 /\ known THEN request.sessionId ELSE 0,
                                [isError |-> hook.status # 0 \/ ~known,
                                 statements |-> <<>>, listing |-> {}])
  /\ UNCHANGED <<minted, presented, verdict, permCall, query, config, sessions, history, introspection, handlers, transports, process>>

\* DELETE /mcp: close the transport, drop the session, answer closed: true
DeleteSession ==
  /\ Listening
  /\ \E request \in McpRequests("DELETE") :
       LET hook == authHook(request)
           sessionId == request.sessionId
           nothing == [isError |-> TRUE, statements |-> <<>>, listing |-> {}]
       IN  IF hook.status # 0
           THEN /\ exchange' = McpReply(request, "DELETE", 401, 0, nothing)
                /\ UNCHANGED <<sessions, history>>
           ELSE IF ~hasSession(sessions, sessionId)
           THEN /\ exchange' = McpReply(request, "DELETE", 400, 0, nothing)
                /\ UNCHANGED <<sessions, history>>
           ELSE /\ sessions' = LET closed == onclose(sessions, sessionId)
                                IN  [i \in DOMAIN closed \ {sessionId} |-> closed[i]]
                /\ history' = [history EXCEPT !.ended = @ \cup {sessionId}]
                /\ exchange' = McpReply(request, "DELETE", 200, sessionId,
                                        [isError |-> FALSE, statements |-> <<>>,
                                         listing |-> {}])
  /\ UNCHANGED <<minted, presented, verdict, permCall, query, config, introspection, handlers, transports, process>>

\* the transport of a stored session closes without a DELETE request
TransportClose ==
  /\ Listening
  /\ \E sessionId \in DOMAIN sessions :
       /\ sessions' = onclose(sessions, sessionId)
       /\ history' = [history EXCEPT !.ended = @ \cup {sessionId}]
       /\ exchange' = McpReply([method |-> "none", url |-> <<>>, authorization |-> <<>>,
                                xApiKey |-> <<>>, cred |-> "none", claims |-> JsUndefined,
                                sessionId |-> sessionId],
                               "close", 0, sessionId,
                               [isError |-> FALSE, statements |-> <<>>, listing |-> {}])
  /\ UNCHANGED <<minted, presented, verdict, permCall, query, config, introspection, handlers, transports, process>>

\* a tool surface whose permission check never throws
checkPermissionSkipped(permissions, schema, access) == TRUE

\* checkPermission(permissions, schema, access): FALSE when it throws
\* "Permission denied", which the tool turns into an error result
checkPermission(permissions, schema, access) ==
  hasPermission(permissions, schema, access)

\* parsePkValues(table, id): key values by key column; null stands for the
\* error it throws ("Composite primary key expects n values (...), got m")
parsePkValues(table, id) ==
  IF Len(table.primaryKeys) = 1 THEN JsObject(<<Entry(table.primaryKeys[1], id)>>)
  ELSE LET parts == Split(id, ",")
       IN  IF \/ Len(parts) # Len(table.primaryKeys)
              \/ \E i \in 1..Len(parts) : Trim(parts[i]) = <<>>
           THEN JsNull
           ELSE JsObject([i \in 1..Len(parts) |-> Entry(table.primaryKeys[i], parts[i])])

\* errorResult: the tool result that reports a failure; reason is the
\* class of its text (which check of the callback produced it).
errorResult(reason) ==
  [isError |-> TRUE, statements |-> <<>>, listing |-> {}, reason |-> reason]

\* POST /mcp with a request other than initialize: the hook, then the lookup
\* of the session; a request that names no stored session reaches a fresh
\* transport, which refuses it; otherwise the session's server runs the
\* handler with the permissions it was created with, and result is what
\* the handler answers
Forward(request, route, hook, result) ==
  LET refuse(status) ==
        McpReply(request, route, status, 0,
                 [isError |-> TRUE, statements |-> <<>>, listing |-> {}])
  IN  IF hook.status # 0 THEN refuse(401)
      ELSE IF ~hasSession(sessions, request.sessionId) THEN refuse(400)
      ELSE McpReply(request, route, 200, request.sessionId, result)

\* list_tables, the db://schema resource, the list of the table-schema
\* resource template and the explore-database prompt: getAccessibleTables
ListAccessible ==
  /\ Listening
  /\ \E request \in McpRequests("POST") :
     \E hook \in {authHook(request)} :
     \E route \in {"list_tables", "database-schema", "table-schema/list", "explore-database"} :
       exchange' = Forward(request, route, hook,
         LET permissions == sessions[request.sessionId].permissions IN
         [isError |-> FALSE, statements |-> <<>>,
          listing |-> { t.routePath : t \in { u \in Tables :
                          hasAnyPermission(permissions, u.schema) } }])
  /\ UNCHANGED <<minted, presented, verdict, permCall, query, config, sessions, history, introspection, handlers, transports, process>>

\* describe_table, the table-schema resource and the crud-guide prompt
DescribeAccessible ==
  /\ Listening
  /\ \E request \in McpRequests("POST") :
     \E hook \in {authHook(request)} :
     \E route \in {"describe_table", "table-schema", "crud-guide"},
        routePath \in {<<"u", "s", "e", "r", "s">>, <<"r", "e", "p", "o", "r", "t", "i", "n", "g", "_", "_", "m", "e", "t", "r", "i", "c", "s">>, <<"a", "u", "d", "i", "t", "_", "l", "o", "g", "s">>, <<"n", "o", "p", "e">>} :
       exchange' = Forward([table |-> routePath] @@ request, route, hook,
         LET permissions == sessions[request.sessionId].permissions
             table == findTable(routePath)
         IN  IF table = JsUndefined \/ ~hasAnyPermission(permissions, table.schema)
             THEN [isError |-> TRUE, statements |-> <<>>, listing |-> {}]
             ELSE [isError |-> FALSE, statements |-> <<>>, listing |-> {table.routePath}])
  /\ UNCHANGED <<minted, presented, verdict, permCall, query, config, sessions, history, introspection, handlers, transports, process>>

ListRecords ==
  /\ Listening
  /\ \E request \in McpRequests("POST") :
     \E hook \in {authHook(request)} :
     \E routePath \in {<<"u", "s", "e", "r", "s">>, <<"r", "e", "p", "o", "r", "t", "i", "n", "g", "_", "_", "m", "e", "t", "r", "i", "c", "s">>, <<"a", "u", "d", "i", "t", "_", "l", "o", "g", "s">>, <<"n", "o", "p", "e">>},
        page \in {0, 2} :
     \* page ?? 1, pageSize ?? config.defaultPageSize; no other argument
     \E table \in {findTable(routePath)},
        opts \in {[page |-> [t |-> "number", n |-> IF page = 0 THEN 1 ELSE page],
                   pageSize |-> [t |-> "number", n |-> DefaultPageSize],
                   sortBy |-> <<>>, sortOrder |-> <<>>, select |-> <<>>,
                   search |-> <<>>, searchColumns |-> <<>>, filters |-> <<>>]} :
     \E data \in {IF table = JsUndefined THEN [ok |-> FALSE]
                   ELSE buildSelectQuery(table, opts)},
        count \in {IF table = JsUndefined THEN [ok |-> FALSE]
                    ELSE buildCountQuery(table, opts)} :
       exchange' = Forward([table |-> routePath] @@ request, "list_records", hook,
         LET permissions == sessions[request.sessionId].permissions IN
             IF table = JsUndefined THEN errorResult("notFound")
             ELSE IF ~checkPermission(permissions, table.schema, PermR)
             THEN errorResult("permission")
             ELSE IF ~data.ok THEN errorResult("validation")
             ELSE IF ~count.ok
             THEN [isError |-> TRUE, statements |-> <<[pool |-> readPool] @@ data>>,
                   listing |-> {}]
             ELSE [isError |-> FALSE, listing |-> {},
                   statements |-> <<[pool |-> readPool] @@ data,
                                    [pool |-> readPool] @@ count>>])
  /\ UNCHANGED <<minted, presented, verdict, permCall, query, config, sessions, history, introspection, handlers, transports, process>>

GetRecord ==
  /\ Listening
  /\ \E request \in McpRequests("POST") :
     \E hook \in {authHook(request)} :
     \E routePath \in {<<"u", "s", "e", "r", "s">>, <<"u", "s", "e", "r", "_", "r", "o", "l", "e", "s">>, <<"r", "e", "p", "o", "r", "t", "i", "n", "g", "_", "_", "m", "e", "t", "r", "i", "c", "s">>, <<"a", "u", "d", "i", "t", "_", "l", "o", "g", "s">>, <<"n", "o", "p", "e">>},
        id \in KeySegments, found \in BOOLEAN :
     \E table \in {findTable(routePath)} :
     \E pkValues \in {IF table = JsUndefined THEN JsNull
                       ELSE parsePkValues(table, id)} :
     \E statement \in {IF pkValues = JsNull THEN [ok |-> FALSE]
                        ELSE buildSelectByPkQuery(table, pkValues.e, <<>>)} :
       exchange' = Forward([table |-> routePath, id |-> id] @@ request, "get_record", hook,
         LET permissions == sessions[request.sessionId].permissions IN
             IF table = JsUndefined THEN errorResult("notFound")
             ELSE IF table.primaryKeys = <<>> THEN errorResult("noPrimaryKey")
             ELSE IF ~checkPermission(permissions, table.schema, PermR)
             THEN errorResult("permission")
             ELSE IF pkValues = JsNull \/ ~statement.ok THEN errorResult("validation")
             ELSE [isError |-> ~found, listing |-> {},
                   statements |-> <<[pool |-> readPool] @@ statement>>])
  /\ UNCHANGED <<minted, presented, verdict, permCall, query, config, sessions, history, introspection, handlers, transports, process>>

CreateRecord ==
  /\ Listening
  /\ \E request \in McpRequests("POST") :
     \E hook \in {authHook(request)} :
     \E routePath \in {<<"u", "s", "e", "r", "s">>, <<"r", "e", "p", "o", "r", "t", "i", "n", "g", "_", "_", "m", "e", "t", "r", "i", "c", "s">>, <<"a", "u", "d", "i", "t", "_", "l", "o", "g", "s">>, <<"n", "o", "p", "e">>},
        bulk \in BOOLEAN :
     \E table \in {findTable(routePath)},
        data \in {<<Entry(<<"n", "a", "m", "e">>, <<"n">>), Entry(<<"v", "a", "l", "u", "e">>, <<"1">>), Entry(<<"e", "v", "e", "n", "t">>, <<"e">>)>>} :
     \E statement \in {IF table = JsUndefined THEN [ok |-> FALSE]
                        ELSE IF bulk THEN buildBulkInsertQuery(table, <<data, data>>)
                        ELSE buildInsertQuery(table, data)} :
       exchange' = Forward([table |-> routePath] @@ request, "create_record", hook,
         LET permissions == sessions[request.sessionId].permissions IN
             IF table = JsUndefined THEN errorResult("notFound")
             ELSE IF ~checkPermission(permissions, table.schema, PermW)
             THEN errorResult("permission")
             ELSE IF ~statement.ok THEN errorResult("validation")
             ELSE [isError |-> FALSE, listing |-> {},
                   statements |-> <<[pool |-> "primary"] @@ statement>>])
  /\ UNCHANGED <<minted, presented, verdict, permCall, query, config, sessions, history, introspection, handlers, transports, process>>

UpdateRecord ==
  /\ Listening
  /\ \E request \in McpRequests("POST") :
     \E hook \in {authHook(request)} :
     \E routePath \in {<<"u", "s", "e", "r", "s">>, <<"u", "s", "e", "r", "_", "r", "o", "l", "e", "s">>, <<"r", "e", "p", "o", "r", "t", "i", "n", "g", "_", "_", "m", "e", "t", "r", "i", "c", "s">>, <<"a", "u", "d", "i", "t", "_", "l", "o", "g", "s">>, <<"n", "o", "p", "e">>},
        id \in KeySegments, found \in BOOLEAN :
     \E table \in {findTable(routePath)},
        data \in {<<Entry(<<"n", "a", "m", "e">>, <<"n">>), Entry(<<"v", "a", "l", "u", "e">>, <<"1">>)>>} :
     \E pkValues \in {IF table = JsUndefined THEN JsNull
                       ELSE parsePkValues(table, id)} :
     \E statement \in {IF pkValues = JsNull THEN [ok |-> FALSE]
                        ELSE buildUpdateQuery(table, pkValues.e, data)} :
       exchange' = Forward([table |-> routePath, id |-> id] @@ request, "update_record", hook,
         LET permissions == sessions[request.sessionId].permissions IN
             IF table = JsUndefined THEN errorResult("notFound")
             ELSE IF table.primaryKeys = <<>> THEN errorResult("noPrimaryKey")
             ELSE IF ~checkPermission(permissions, table.schema, PermW)
             THEN errorResult("permission")
             ELSE IF pkValues = JsNull \/ ~statement.ok THEN errorResult("validation")
             ELSE [isError |-> ~found, listing |-> {},
                   statements |-> <<[pool |-> "primary"] @@ statement>>])
  /\ UNCHANGED <<minted, presented, verdict, permCall, query, config, sessions, history, introspection, handlers, transports, process>>

DeleteRecord ==
  /\ Listening
  /\ \E request \in McpRequests("POST") :
     \E hook \in {authHook(request)} :
     \E routePath \in {<<"u", "s", "e", "r", "s">>, <<"u", "s", "e", "r", "_", "r", "o", "l", "e", "s">>, <<"p", "o", "s", "t", "s">>, <<"r", "e", "p", "o", "r", "t", "i", "n", "g", "_", "_", "m", "e", "t", "r", "i", "c", "s">>, <<"a", "u", "d", "i", "t", "_", "l", "o", "g", "s">>, <<"n", "o", "p", "e">>},
        id \in KeySegments, found \in BOOLEAN :
     \E table \in {findTable(routePath)} :
     \E pkValues \in {IF table = JsUndefined THEN JsNull
                       ELSE parsePkValues(table, id)} :
     \E statement \in {IF pkValues = JsNull THEN [ok |-> FALSE]
                        ELSE buildDeleteQuery(table, pkValues.e)} :
       exchange' = Forward([table |-> routePath, id |-> id] @@ request, "delete_record", hook,
         LET permissions == sessions[request.sessionId].permissions IN
             IF table = JsUndefined THEN errorResult("notFound")
             ELSE IF table.primaryKeys = <<>> THEN errorResult("noPrimaryKey")
             ELSE IF ~checkPermission(permissions, table.schema, PermW)
             THEN errorResult("permission")
             ELSE IF pkValues = JsNull \/ ~statement.ok THEN errorResult("validation")
             ELSE IF ~found
             THEN [isError |-> TRUE, listing |-> {},
                   statements |-> <<[pool |-> "primary"] @@ statement>>]
             \* textResult({ deleted: true, softDelete: hasSoftDelete(table), record })
             ELSE [isError |-> FALSE, softDelete |-> hasSoftDelete(table), listing |-> {},
                   statements |-> <<[pool |-> "primary"] @@ statement>>])
  /\ UNCHANGED <<minted, presented, verdict, permCall, query, config, sessions, history, introspection, handlers, transports, process>>

NextMcp ==
  \/ Initialize
  \/ GetStream
  \/ DeleteSession
  \/ TransportClose
  \/ ListAccessible
  \/ DescribeAccessible
  \/ ListRecords
  \/ GetRecord
  \/ CreateRecord
  \/ UpdateRecord
  \/ DeleteRecord

SpecServer == Init /\ [][NextRest \/ NextMcp]_vars

\* ------------------------------------------------------------------------
\* Claims about pools and agent sessions
\* ------------------------------------------------------------------------

C9_SessionKeepsInitialClaims ==
  LET route == exchange.route
      claims == history.claims[exchange.session]
      table == findTable(exchange.request.table)
      many == {"list_tables", "database-schema", "table-schema/list", "explore-database"}
      one == {"describe_table", "table-schema", "crud-guide"}
      reads == {"list_records", "get_record"}
      writes == {"create_record", "update_record", "delete_record"}
  IN  (/\ exchange.surface = "mcp"
       /\ config.apiKeysEnabled
       /\ route \in many \cup one \cup reads \cup writes
       /\ exchange.session # 0)
      => /\ exchange.permissions = claims
         /\ route \in many =>
              exchange.listing = { t.routePath : t \in { u \in Tables :
                                     hasAnyPermission(claims, u.schema) } }
         /\ (route \in one /\ table # JsUndefined) =>
              (exchange.isError <=> ~hasAnyPermission(claims, table.schema))
         /\ (route \in reads /\ table # JsUndefined
             /\ ~hasPermission(claims, table.schema, PermR)) =>
              exchange.isError /\ exchange.statements = <<>>
         /\ (route \in writes /\ table # JsUndefined
             /\ ~hasPermission(claims, table.schema, PermW)) =>
              exchange.isError /\ exchange.statements = <<>>

\* a session initialized with a token scoped to the public namespace runs a
\* list of public.users for a request that carries a token scoped to the
\* reporting namespace only
C9_Witness ==
  /\ exchange.surface = "mcp"
  /\ config.apiKeysEnabled
  /\ exchange.route = "list_records"
  /\ exchange.session # 0
  /\ exchange.request.table = <<"u", "s", "e", "r", "s">>
  /\ history.claims[exchange.session] = JsObject(<<Entry(Public, PermR)>>)
  /\ exchange.request.claims = JsObject(<<Entry(Reporting, PermRW)>>)
  /\ ~exchange.isError
  /\ Len(exchange.statements) = 2

\* C10: the session table holds exactly the sessions that were initialized
\* and have not ended since, by DELETE /mcp or by their transport closing;
\* and a GET or DELETE naming a session that had ended before it finds no
\* session: it is answered 400 once past the credential check, never 200.
C10_SessionTableTracksLiveSessions ==
  /\ DOMAIN sessions = history.initialized \ history.ended
  /\ (/\ exchange.surface = "mcp"
      /\ exchange.route \in {"GET", "DELETE"}
      /\ exchange.wasEnded)
     => /\ exchange.session = 0
        /\ exchange.status # 200
        /\ (~config.apiKeysEnabled \/ exchange.request.cred = "minted") =>
             exchange.status = 400

\* a DELETE for a session closed earlier is answered 400 while another
\* session is still in the table
C10_Witness ==
  /\ exchange.surface = "mcp"
  /\ exchange.route = "DELETE"
  /\ exchange.wasEnded
  /\ exchange.status = 400
  /\ exchange.request.sessionId \in history.ended
  /\ DOMAIN sessions # {}


\* C11 as stated: every GET or DELETE on /mcp whose session header is
\* missing, or names a session that is not in the session table when the
\* request arrives, is answered 400 and leaves the session table unchanged.
C11_UnknownSessionAnswered400 ==
  [][(/\ exchange'.surface = "mcp"
      /\ exchange'.route \in {"GET", "DELETE"}
      /\ exchange'.request.sessionId \notin DOMAIN sessions)
     => (exchange'.status = 400 /\ sessions' = sessions)]_vars

\* C11 amended: a GET or DELETE on /mcp that the credential hook lets
\* through (credentials disabled, or a key that verifies) and whose session
\* header is missing, or names a session that is not in the session table
\* when the request arrives, is answered 400 and leaves the session table
\* unchanged.
C11_AdmittedUnknownSessionAnswered400 ==
  [][(/\ exchange'.surface = "mcp"
      /\ exchange'.route \in {"GET", "DELETE"}
      /\ authHook(exchange'.request).status = 0
      /\ exchange'.request.sessionId \notin DOMAIN sessions)
     => (exchange'.status = 400 /\ sessions' = sessions)]_vars

\* a DELETE with a verified key names a session that was closed before,
\* while another session is still stored: it is answered 400
C11_Witness ==
  /\ exchange.surface = "mcp"
  /\ exchange.route = "DELETE"
  /\ config.apiKeysEnabled
  /\ authHook(exchange.request).status = 0
  /\ exchange.request.sessionId \in history.ended
  /\ exchange.request.sessionId \notin DOMAIN sessions
  /\ DOMAIN sessions # {}
  /\ exchange.status = 400


\* C12: on the agent tool surface a call of list_records or get_record by
\* a session whose claims give no read access on the entity's namespace,
\* and a call of create_record, update_record or delete_record by a session
\* whose claims give no write access there, returns an error result and
\* runs no statement.
C12_ToolDeniedWithoutAccess ==
  LET table == findTable(exchange.request.table)
      needed == IF exchange.route \in {"list_records", "get_record"} THEN PermR ELSE PermW
  IN  (/\ exchange.surface = "mcp"
       /\ exchange.route \in {"list_records", "get_record", "create_record",
                               "update_record", "delete_record"}
       /\ exchange.session # 0
       /\ table # JsUndefined
       /\ ~DocumentedPermission(exchange.permissions, table.schema, needed))
      => exchange.isError /\ exchange.statements = <<>>

\* a session whose claims are read-only on the public namespace calls
\* delete_record on public.users, a table with a primary key, and gets an
\* error result
C12_Witness ==
  /\ exchange.surface = "mcp"
  /\ exchange.route = "delete_record"
  /\ exchange.session # 0
  /\ exchange.permissions = JsObject(<<Entry(Public, PermR)>>)
  /\ exchange.request.table = <<"u", "s", "e", "r", "s">>
  /\ exchange.isError
  /\ exchange.statements = <<>>


\* ------------------------------------------------------------------------
\* Claims about list statements
\* ------------------------------------------------------------------------

\* C15: in the statement of every list request a page below 1 gives offset
\* 0, a pageSize above the configured maximum gives a limit equal to the
\* maximum, a pageSize below 1 gives limit 1, and the offset equals
\* (page - 1) x limit computed from the clamped values.
C15_PaginationClamped ==
  LET n == Len(query.values)
      page == query.input.page
      pageSize == query.input.pageSize
      limit == ToNumber(query.values[n - 1].s)
      offset == ToNumber(query.values[n].s)
      clampedPage == IF page.t = "number" /\ page.n >= 1 THEN page.n ELSE 1
  IN  (query.op = "select" /\ query.ok)
      => /\ (page.t = "number" /\ page.n < 1) => offset = 0
         /\ (pageSize.t = "number" /\ pageSize.n > MaxPageSize) => limit = MaxPageSize
         /\ (pageSize.t = "number" /\ pageSize.n < 1) => limit = 1
         /\ offset = (clampedPage - 1) * limit

\* C16: for every filter string, when the text before its first colon is
\* one of the ten known operators that operator is applied to the text after
\* the colon; in every other case (no colon, empty prefix, any other
\* prefix) the whole string is bound as the operand of an equality
\* comparison. Stated on the statements built for a single filter on an
\* existing column: the clause carries the operator's SQL text and the
\* first values bound are the operand (none for is, the parts for in).
C16_FilterOperatorPrefix ==
  LET f == query.input.filters[1]
      colonIdx == IndexOf(f.v, ":")
      known == colonIdx > 0 /\ Slice(f.v, 0, colonIdx) \in Keys(FILTER_OPERATORS)
      operator == IF known THEN Slice(f.v, 0, colonIdx) ELSE <<"e", "q">>
      operand == IF known THEN SliceFrom(f.v, colonIdx + 1) ELSE f.v
      bound == IF operator = <<"i", "s">> THEN <<>>
               ELSE IF operator = <<"i", "n">> THEN Split(operand, ",")
               ELSE <<operand>>
  IN  (/\ query.op \in {"select", "count"}
       /\ query.ok
       /\ Len(query.input.filters) = 1)
      => /\ Contains(query.text,
                     quoteIdent(f.k) \o <<" ">> \o PropGet(FILTER_OPERATORS, operator).s \o <<" ">>)
         /\ Len(query.values) >= Len(bound)
         /\ \A i \in 1..Len(bound) : query.values[i] = [t |-> "string", s |-> bound[i]]

\* C18: for every combination of filters, search term and search columns
\* for which both statements are built, the list statement and the count
\* statement carry the same WHERE clause text, and the values of the count
\* statement are the values of the list statement without its trailing
\* limit and offset.
C18_CountSharesWhere ==
  LET list == buildSelectQuery(query.table, query.input)
      head == <<"S", "E", "L", "E", "C", "T", " ", "C", "O", "U", "N", "T", "(", "*", ")", " ", "A", "S", " ", "t", "o", "t", "a", "l", " ", "F", "R", "O", "M", " ">> \o query.table.fqn
      where == SliceFrom(query.text, Len(head))
  IN  (query.op = "count" /\ query.ok /\ list.ok)
      => /\ StartsWith(query.text, head)
         /\ where # <<>> => StartsWith(where, <<" ", "W", "H", "E", "R", "E", " ">>)
         /\ Contains(list.text, <<" ", "F", "R", "O", "M", " ">> \o query.table.fqn \o where \o <<" ", "O", "R", "D", "E", "R", " ", "B", "Y", " ">>)
         /\ query.values = SubSeq(list.values, 1, Len(list.values) - 2)

\* a count built for a filter and a search term together: two values bound
C18_Witness ==
  /\ query.op = "count"
  /\ query.ok
  /\ Len(query.input.filters) = 1
  /\ query.input.search # <<>>
  /\ Contains(query.text, <<" ", "A", "N", "D", " ", "(">>)
  /\ Len(query.values) = 2
  /\ buildSelectQuery(query.table, query.input).ok


\* ------------------------------------------------------------------------
\* Claims about by-key operations
\* ------------------------------------------------------------------------

C13_SoftDeleteMatchesStatement ==
  LET rest == exchange.surface = "rest"
      table == IF rest THEN Route(exchange.request.method, exchange.request.url).table
               ELSE findTable(exchange.request.table)
      text == exchange.statements[1].text
  IN  (\/ rest /\ exchange.route = "delete" /\ exchange.status = 200
       \/ /\ exchange.surface = "mcp" /\ exchange.route = "delete_record"
          /\ exchange.session # 0 /\ ~exchange.isError)
      => /\ <<"d", "e", "l", "e", "t", "e", "d", "_", "a", "t">> \in Range(table.columns) => StartsWith(text, <<"U", "P", "D", "A", "T", "E", " ">>)
         /\ <<"d", "e", "l", "e", "t", "e", "d", "_", "a", "t">> \notin Range(table.columns) => StartsWith(text, <<"D", "E", "L", "E", "T", "E", " ", "F", "R", "O", "M", " ">>)
         /\ exchange.softDelete <=> StartsWith(text, <<"U", "P", "D", "A", "T", "E", " ">>)

\* C14: in every insert, update and soft-delete statement built for an
\* entity that has an updated_at column, a payload that does not provide
\* updated_at makes the statement set the column to the literal NOW() and
\* binds no value for it, and a payload that provides it binds the provided
\* value and puts no NOW() for the column into the statement.
C14_UpdatedAtStamped ==
  LET data == IF query.op = "insert" THEN query.input
              ELSE IF query.op = "update" THEN query.input.data
              ELSE <<>>
      provided == PropGet(data, <<"u", "p", "d", "a", "t", "e", "d", "_", "a", "t">>)
      given == SelectSeq(query.table.columns, LAMBDA c :
                 /\ PropGet(data, c).t # "undefined"
                 /\ (query.op = "insert" \/ c \notin Range(query.table.primaryKeys)))
      keys == IF query.op = "insert" THEN 0 ELSE Len(query.table.primaryKeys)
  IN  (/\ \/ query.op \in {"insert", "update"}
          \/ query.op = "delete" /\ <<"d", "e", "l", "e", "t", "e", "d", "_", "a", "t">> \in Range(query.table.columns)
       /\ query.ok
       /\ <<"u", "p", "d", "a", "t", "e", "d", "_", "a", "t">> \in Range(query.table.columns))
      => IF provided.t = "undefined"
         THEN /\ Contains(query.text, <<"\"", "u", "p", "d", "a", "t", "e", "d", "_", "a", "t", "\"">>)
              /\ Contains(query.text, <<"N", "O", "W", "(", ")">>)
              /\ Len(query.values) = Len(given) + keys
         ELSE /\ provided \in Range(query.values)
              /\ ~Contains(query.text, <<"N", "O", "W", "(", ")">>)

C23_PermissionBeforeValidation ==
  LET request == exchange.request
      rest == Route(request.method, request.url).table
      tool == findTable(request.table)
      reading == exchange.route \in {"list", "getByPk", "list_records", "get_record"}
      required == IF reading THEN PermR ELSE PermW
  IN  /\ (/\ exchange.surface = "rest"
          /\ exchange.route \in {"list", "getByPk", "create", "put", "patch", "delete"}
          /\ exchange.status # 401
          /\ ~hasPermission(exchange.permissions, rest.schema, required))
         => exchange.status = 403
      /\ (/\ exchange.surface = "mcp"
          /\ exchange.route \in {"list_records", "get_record", "create_record",
                                  "update_record", "delete_record"}
          /\ exchange.session # 0
          /\ tool # JsUndefined
          /\ ~checkPermission(exchange.permissions, tool.schema, required))
         => exchange.isError /\ exchange.reason = "permission"

\* ------------------------------------------------------------------------
\* Error classification
\* ------------------------------------------------------------------------

\* PG_ERROR_MAP: native code -> status, kind label and message
PG_ERROR_MAP ==
  (<<"2", "3", "5", "0", "5">> :> [status |-> 409, error |-> <<"C", "o", "n", "f", "l", "i", "c", "t">>, message |-> <<"A", " ", "r", "e", "c", "o", "r", "d", " ", "w", "i", "t", "h", " ", "t", "h", "i", "s", " ", "k", "e", "y", " ", "a", "l", "r", "e", "a", "d", "y", " ", "e", "x", "i", "s", "t", "s">>])
  @@ (<<"2", "3", "5", "0", "3">> :> [status |-> 400, error |-> <<"F", "o", "r", "e", "i", "g", "n", " ", "k", "e", "y", " ", "v", "i", "o", "l", "a", "t", "i", "o", "n">>, message |-> <<"R", "e", "f", "e", "r", "e", "n", "c", "e", "d", " ", "r", "e", "c", "o", "r", "d", " ", "d", "o", "e", "s", " ", "n", "o", "t", " ", "e", "x", "i", "s", "t">>])
  @@ (<<"2", "3", "5", "0", "2">> :> [status |-> 400, error |-> <<"N", "o", "t", " ", "n", "u", "l", "l", " ", "v", "i", "o", "l", "a", "t", "i", "o", "n">>, message |-> <<"R", "e", "q", "u", "i", "r", "e", "d", " ", "f", "i", "e", "l", "d", " ", "i", "s", " ", "m", "i", "s", "s", "i", "n", "g">>])
  @@ (<<"2", "2", "P", "0", "2">> :> [status |-> 400, error |-> <<"I", "n", "v", "a", "l", "i", "d", " ", "i", "n", "p", "u", "t">>, message |-> <<"I", "n", "v", "a", "l", "i", "d", " ", "d", "a", "t", "a", " ", "t", "y", "p", "e", " ", "p", "r", "o", "v", "i", "d", "e", "d">>])

\* handleDbError(error, reply): the status and the object sent. A thrown
\* value is [isError, e]: whether it is an instance of Error and its own
\* properties. A member whose value is undefined is not serialized.
handleDbError(error) ==
  LET code == PropGet(error.e, <<"c", "o", "d", "e">>)
      detail == PropGet(error.e, <<"d", "e", "t", "a", "i", "l">>)
      message == PropGet(error.e, <<"m", "e", "s", "s", "a", "g", "e">>)
      constraint == PropGet(error.e, <<"c", "o", "n", "s", "t", "r", "a", "i", "n", "t">>)
      shown == IF detail.t = "undefined" THEN message ELSE detail
  IN  IF Truthy(code) /\ code.s \in DOMAIN PG_ERROR_MAP
      THEN [status |-> PG_ERROR_MAP[code.s].status,
            body |-> <<Entry(<<"e", "r", "r", "o", "r">>, PG_ERROR_MAP[code.s].error),
                       Entry(<<"m", "e", "s", "s", "a", "g", "e">>, PG_ERROR_MAP[code.s].message)>>
                     \o (IF config.exposeDbErrors /\ shown.t = "string"
                         THEN <<Entry(<<"d", "e", "t", "a", "i", "l">>, shown.s)>> ELSE <<>>)
                     \o (IF config.exposeDbErrors /\ Truthy(constraint)
                         THEN <<Entry(<<"c", "o", "n", "s", "t", "r", "a", "i", "n", "t">>, constraint.s)>> ELSE <<>>)]
      ELSE [status |-> 500,
            body |-> <<Entry(<<"e", "r", "r", "o", "r">>, <<"I", "n", "t", "e", "r", "n", "a", "l", " ", "s", "e", "r", "v", "e", "r", " ", "e", "r", "r", "o", "r">>),
                       Entry(<<"m", "e", "s", "s", "a", "g", "e">>, <<"A", "n", " ", "u", "n", "e", "x", "p", "e", "c", "t", "e", "d", " ", "d", "a", "t", "a", "b", "a", "s", "e", " ", "e", "r", "r", "o", "r", " ", "o", "c", "c", "u", "r", "r", "e", "d">>)>>]

\* handleRouteError(error, reply): an Error without a code member is
\* answered as a client error, anything else by handleDbError
handleRouteError(error) ==
  IF error.isError /\ <<"c", "o", "d", "e">> \notin Keys(error.e)
  THEN [status |-> 400,
        body |-> <<Entry(<<"e", "r", "r", "o", "r">>, <<"B", "a", "d", " ", "r", "e", "q", "u", "e", "s", "t">>),
                   Entry(<<"m", "e", "s", "s", "a", "g", "e">>, PropGet(error.e, <<"m", "e", "s", "s", "a", "g", "e">>).s)>>]
  ELSE handleDbError(error)

\* formatPgError(error): the text of the tool's error result
formatPgError(error) ==
  LET code == PropGet(error.e, <<"c", "o", "d", "e">>)
      detail == PropGet(error.e, <<"d", "e", "t", "a", "i", "l">>)
      message == PropGet(error.e, <<"m", "e", "s", "s", "a", "g", "e">>)
      \* the dash of the two long labels is written "-" here
      pgErrorMap ==
        (<<"2", "3", "5", "0", "5">> :> <<"D", "u", "p", "l", "i", "c", "a", "t", "e", " ", "k", "e", "y", " ", "/", " ", "u", "n", "i", "q", "u", "e", " ", "c", "o", "n", "s", "t", "r", "a", "i", "n", "t", " ", "v", "i", "o", "l", "a", "t", "i", "o", "n">>)
        @@ (<<"2", "3", "5", "0", "3">> :> <<"F", "o", "r", "e", "i", "g", "n", " ", "k", "e", "y", " ", "v", "i", "o", "l", "a", "t", "i", "o", "n", " ", "-", " ", "r", "e", "f", "e", "r", "e", "n", "c", "e", "d", " ", "r", "e", "c", "o", "r", "d", " ", "d", "o", "e", "s", " ", "n", "o", "t", " ", "e", "x", "i", "s", "t">>)
        @@ (<<"2", "3", "5", "0", "2">> :> <<"N", "o", "t", " ", "n", "u", "l", "l", " ", "v", "i", "o", "l", "a", "t", "i", "o", "n", " ", "-", " ", "r", "e", "q", "u", "i", "r", "e", "d", " ", "f", "i", "e", "l", "d", " ", "i", "s", " ", "m", "i", "s", "s", "i", "n", "g">>)
        @@ (<<"2", "2", "P", "0", "2">> :> <<"I", "n", "v", "a", "l", "i", "d", " ", "d", "a", "t", "a", " ", "t", "y", "p", "e", " ", "p", "r", "o", "v", "i", "d", "e", "d">>)
  IN  IF Truthy(code) /\ code.s \in DOMAIN pgErrorMap
      THEN pgErrorMap[code.s]
           \o (IF config.exposeDbErrors /\ Truthy(detail)
               THEN <<":", " ">> \o detail.s ELSE <<>>)
      ELSE IF Truthy(message) THEN message.s
      ELSE <<"A", "n", " ", "u", "n", "e", "x", "p", "e", "c", "t", "e", "d", " ", "d", "a", "t", "a", "b", "a", "s", "e", " ", "e", "r", "r", "o", "r", " ", "o", "c", "c", "u", "r", "r", "e", "d">>

\* What the try block of a handler throws. When the statement cannot be
\* built, the Error of the query builder. Else what pool.query rejects
\* with: a DatabaseError of the driver (an Error with the native code, with
\* or without detail and constraint) for the mapped codes, a check violation
\* and a syntax error; an Error of the driver without a code (the connection
\* ended); a system error with a code of the platform; a rejection value
\* that is not an Error. The statements are a list statement and an insert.
Failures ==
  LET thrown(isError, entries) == [isError |-> isError, e |-> entries]
      users == findTable(<<"u", "s", "e", "r", "s">>)
      builds ==
        { buildSelectQuery(users, opts) :
            opts \in { o \in ListInputs(users) : o.page = JsUndefined /\ o.search = <<>> } }
        \cup { buildInsertQuery(users, data) : data \in DataInputs(users) }
      rejections ==
        { thrown(TRUE, <<Entry(<<"m", "e", "s", "s", "a", "g", "e">>, <<"p", "g", ":", " ", "s", "t", "a", "t", "e", "m", "e", "n", "t", " ", "f", "a", "i", "l", "e", "d">>), Entry(<<"c", "o", "d", "e">>, code)>>
                       \o detail \o constraint) :
            code \in {<<"2", "3", "5", "0", "5">>, <<"2", "3", "5", "0", "3">>, <<"2", "3", "5", "0", "2">>, <<"2", "2", "P", "0", "2">>, <<"2", "3", "5", "1", "4">>, <<"4", "2", "6", "0", "1">>},
            detail \in {<<>>, <<Entry(<<"d", "e", "t", "a", "i", "l">>, <<"K", "e", "y", " ", "(", "e", "m", "a", "i", "l", ")", "=", "(", "a", "l", "i", "c", "e", "@", "t", "e", "s", "t", ".", "c", "o", "m", ")", " ", "a", "l", "r", "e", "a", "d", "y", " ", "e", "x", "i", "s", "t", "s", ".">>)>>},
            constraint \in {<<>>, <<Entry(<<"c", "o", "n", "s", "t", "r", "a", "i", "n", "t">>, <<"u", "s", "e", "r", "s", "_", "e", "m", "a", "i", "l", "_", "k", "e", "y">>)>>} }
        \cup { thrown(TRUE, <<Entry(<<"m", "e", "s", "s", "a", "g", "e">>, <<"C", "o", "n", "n", "e", "c", "t", "i", "o", "n", " ", "t", "e", "r", "m", "i", "n", "a", "t", "e", "d", " ", "u", "n", "e", "x", "p", "e", "c", "t", "e", "d", "l", "y">>)>>),
               thrown(TRUE, <<Entry(<<"m", "e", "s", "s", "a", "g", "e">>, <<"c", "o", "n", "n", "e", "c", "t", " ", "E", "C", "O", "N", "N", "R", "E", "F", "U", "S", "E", "D", " ", "1", "2", "7", ".", "0", ".", "0", ".", "1", ":", "5", "4", "3", "2">>),
                              Entry(<<"c", "o", "d", "e">>, <<"E", "C", "O", "N", "N", "R", "E", "F", "U", "S", "E", "D">>)>>),
               thrown(FALSE, <<Entry(<<"c", "o", "d", "e">>, <<"2", "3", "5", "0", "5">>)>>) }
  IN  UNION { IF statement.ok
              THEN { [origin |-> "execute", thrown |-> t] : t \in rejections }
              ELSE { [origin |-> "build",
                      thrown |-> thrown(TRUE, <<Entry(<<"m", "e", "s", "s", "a", "g", "e">>, <<"q", "u", "e", "r", "y", " ", "b", "u", "i", "l", "d", "e", "r", ":", " ", "i", "n", "v", "a", "l", "i", "d", " ", "i", "n", "p", "u", "t">>)>>)] } :
              statement \in builds }

\* A REST handler whose try block throws: catch (error) { return
\* handleRouteError(error, reply) }
RouteFailure ==
  /\ config.booted /\ exchange.surface = "none"
  /\ \E failure \in Failures :
       exchange' = [surface |-> "rest", request |-> <<>>, route |-> "failure",
                    permissions |-> JsUndefined, statements |-> <<>>, listing |-> {},
                    origin |-> failure.origin, thrown |-> failure.thrown,
                    text |-> <<>>]
                   @@ handleRouteError(failure.thrown)
  /\ RestFrame

\* A tool whose try block throws: catch (error) { return
\* errorResult(formatPgError(error)) }
ToolFailure ==
  /\ config.booted /\ exchange.surface = "none"
  /\ \E failure \in Failures :
       exchange' = [surface |-> "mcp", request |-> <<>>, route |-> "failure",
                    permissions |-> JsUndefined, statements |-> <<>>, listing |-> {},
                    origin |-> failure.origin, thrown |-> failure.thrown,
                    status |-> 200, body |-> <<>>,
                    text |-> formatPgError(failure.thrown)]
  /\ RestFrame

NextErrors == BootWith(BOOLEAN) \/ RouteFailure \/ ToolFailure

SpecErrors == Init /\ [][NextErrors]_vars

\* ------------------------------------------------------------------------
\* Claims about error classification
\* ------------------------------------------------------------------------

\* C19: every error thrown while a statement is built or executed is
\* answered with the status of its kind: 409 for native code 23505, 400 for
\* native codes 23503, 23502 and 22P02, 400 for an Error of the query
\* builder, and 500 for every other database error or unexpected failure.
C19_StatusByErrorKind ==
  (exchange.route = "failure" /\ exchange.surface = "rest") =>
    LET code == PropGet(exchange.thrown.e, <<"c", "o", "d", "e">>)
    IN  exchange.status =
          IF exchange.origin = "build" THEN 400
          ELSE IF code.t = "string" /\ code.s = <<"2", "3", "5", "0", "5">> THEN 409
          ELSE IF code.t = "string" /\ code.s \in {<<"2", "3", "5", "0", "3">>, <<"2", "3", "5", "0", "2">>, <<"2", "2", "P", "0", "2">>} THEN 400
          ELSE 500

\* C20: on both surfaces the response to a native database error carries the
\* error's detail and its constraint exactly when exposeDbErrors is on: with
\* the flag on every detail and constraint the error has is in the response,
\* with the flag off neither is and the REST body has only the kind label
\* and the message.
C20_DetailExactlyWhenExposed ==
  (exchange.route = "failure" /\ exchange.origin = "execute"
     /\ exchange.thrown.isError /\ <<"c", "o", "d", "e">> \in Keys(exchange.thrown.e)) =>
    LET detail == PropGet(exchange.thrown.e, <<"d", "e", "t", "a", "i", "l">>)
        constraint == PropGet(exchange.thrown.e, <<"c", "o", "n", "s", "t", "r", "a", "i", "n", "t">>)
        carries(name, value) ==
          IF exchange.surface = "rest"
          THEN Entry(name, value.s) \in Range(exchange.body)
          ELSE Contains(exchange.text, value.s)
    IN  /\ detail.t = "string" => (carries(<<"d", "e", "t", "a", "i", "l">>, detail) <=> config.exposeDbErrors)
        /\ constraint.t = "string" =>
             (carries(<<"c", "o", "n", "s", "t", "r", "a", "i", "n", "t">>, constraint) <=> config.exposeDbErrors)
        /\ ~config.exposeDbErrors =>
             Keys(exchange.body) \subseteq {<<"e", "r", "r", "o", "r">>, <<"m", "e", "s", "s", "a", "g", "e">>}

\* ------------------------------------------------------------------------
\* Claims about identifiers in SQL
\* ------------------------------------------------------------------------

\* How SQL reads a text: its quoted identifiers in order ("" inside one is a
\* double quote), the text outside them, and whether every quoted identifier
\* is terminated
RECURSIVE SqlLex(_, _, _)
SqlLex(text, inside, acc) ==
  LET i == IndexOf(text, "\"")
      last == Len(acc.ids)
  IN  IF i < 0
      THEN [ok |-> ~inside, ids |-> acc.ids, rest |-> acc.rest \o text]
      ELSE IF ~inside
      THEN SqlLex(SliceFrom(text, i + 1), TRUE,
                  [acc EXCEPT !.ids = Append(@, <<>>), !.rest = @ \o Slice(text, 0, i)])
      ELSE IF i + 2 <= Len(text) /\ text[i + 2] = "\""
      THEN SqlLex(SliceFrom(text, i + 2), TRUE,
                  [acc EXCEPT !.ids[last] = @ \o Slice(text, 0, i) \o <<"\"">>])
      ELSE SqlLex(SliceFrom(text, i + 1), FALSE,
                  [acc EXCEPT !.ids[last] = @ \o Slice(text, 0, i)])

\* C21: in every statement a builder returns, the qualified identifier of
\* the table reads back as exactly (schema, name), every quoted identifier
\* of the text is the schema, the name or a column of the table, and none of
\* these names occurs outside the quoted identifiers.
C21_IdentifiersQuoted ==
  query.ok =>
    LET table == query.table
        names == {table.schema, table.name} \cup Range(table.columns)
        start == [ok |-> TRUE, ids |-> <<>>, rest |-> <<>>]
        fqn == SqlLex(table.fqn, FALSE, start)
        statement == SqlLex(query.text, FALSE, start)
    IN  /\ fqn = [ok |-> TRUE, ids |-> <<table.schema, table.name>>, rest |-> <<".">>]
        /\ statement.ok
        /\ Range(statement.ids) \subseteq names
        /\ \A name \in names : ~Contains(statement.rest, name)

\* ------------------------------------------------------------------------
\* Introspection (src/db/introspector.ts)
\* ------------------------------------------------------------------------

\* The catalogs the model introspects: any of three tables, with the rows
\* the catalog views hold for them in the order of the queries' ORDER BY
\* (of a row, the members the introspector reads), and the configuration
\* (SCHEMAS, EXCLUDE_SCHEMAS, EXCLUDE_TABLES).
Catalogs ==
  LET fk(schema, table, column, refSchema, refTable, refColumn) ==
        [table_schema |-> schema, table_name |-> table, column_name |-> column,
         constraint_name |-> table \o <<"_", "f", "k">>, ref_schema |-> refSchema,
         ref_table |-> refTable, ref_column |-> refColumn]
      \* a member a row does not have reads as undefined, written <<>>
      col(schema, table, column) ==
        [fk(schema, table, column, <<>>, <<>>, <<>>) EXCEPT !.constraint_name = <<>>]
      pick(present, rows) == IF present THEN rows ELSE <<>>
  IN  { [schemas |-> <<Public, Reporting>>,
         columns |-> pick(m, <<col(Public, <<"r", "e", "p", "o", "r", "t", "i", "n", "g", "_", "_", "m", "e", "t", "r", "i", "c", "s">>, <<"i", "d">>)>>)
                     \o pick(u, <<col(Public, <<"u", "s", "e", "r", "s">>, <<"i", "d">>), col(Public, <<"u", "s", "e", "r", "s">>, <<"n", "a", "m", "e">>)>>)
                     \o pick(r, <<col(Reporting, <<"m", "e", "t", "r", "i", "c", "s">>, <<"i", "d">>),
                                  col(Reporting, <<"m", "e", "t", "r", "i", "c", "s">>, <<"u", "s", "e", "r", "_", "i", "d">>)>>),
         primaryKeys |-> pick(m, <<col(Public, <<"r", "e", "p", "o", "r", "t", "i", "n", "g", "_", "_", "m", "e", "t", "r", "i", "c", "s">>, <<"i", "d">>)>>)
                         \o pick(u, <<col(Public, <<"u", "s", "e", "r", "s">>, <<"i", "d">>)>>)
                         \o pick(r, <<col(Reporting, <<"m", "e", "t", "r", "i", "c", "s">>, <<"i", "d">>)>>),
         foreignKeys |-> pick(r, <<fk(Reporting, <<"m", "e", "t", "r", "i", "c", "s">>, <<"u", "s", "e", "r", "_", "i", "d">>, Public, <<"u", "s", "e", "r", "s">>, <<"i", "d">>)>>),
         config |-> [schemas |-> only, excludeSchemas |-> <<>>, excludeTables |-> without]] :
        m \in BOOLEAN, u \in BOOLEAN, r \in BOOLEAN,
        only \in {<<>>, <<Reporting>>}, without \in {<<>>, <<<<"p", "u", "b", "l", "i", "c", ".", "u", "s", "e", "r", "s">>>>} }

\* resolveTargetSchemas(allSchemaNames): the target schemas, or that it threw
resolveTargetSchemas(allSchemaNames) ==
  LET cfg == introspection.catalog.config
      SYSTEM_SCHEMAS == {<<"p", "g", "_", "c", "a", "t", "a", "l", "o", "g">>, <<"i", "n", "f", "o", "r", "m", "a", "t", "i", "o", "n", "_", "s", "c", "h", "e", "m", "a">>, <<"p", "g", "_", "t", "o", "a", "s", "t">>}
      wanted == IF Len(cfg.schemas) > 0
                THEN SelectSeq(allSchemaNames, LAMBDA n : n \in Range(cfg.schemas))
                ELSE allSchemaNames
      targetSchemas ==
        SelectSeq(wanted, LAMBDA n :
          /\ n \notin SYSTEM_SCHEMAS \cup Range(cfg.excludeSchemas)
          /\ ~StartsWith(n, <<"p", "g", "_", "t", "e", "m", "p">>) /\ ~StartsWith(n, <<"p", "g", "_", "t", "o", "a", "s", "t", "_", "t", "e", "m", "p">>))
  IN  [threw |-> Len(targetSchemas) = 0, targetSchemas |-> targetSchemas]

\* buildTableMap(colRows): the Map as the sequence of its values in
\* insertion order, each keyed by its fqn
buildTableMap(colRows) ==
  LET excludedTables == Range(introspection.catalog.config.excludeTables)
      RECURSIVE rows(_, _)
      rows(i, tables) ==
        IF i > Len(colRows) THEN tables
        ELSE LET row == colRows[i]
                 fqn == makeFqn(row.table_schema, row.table_name)
                 tableKey == row.table_schema \o <<".">> \o row.table_name
                 known == IF \E k \in 1..Len(tables) : tables[k].fqn = fqn THEN tables
                          ELSE Append(tables,
                                 [foreignKeys |-> <<>>]
                                 @@ TableInfo(row.table_schema, row.table_name, <<>>, <<>>))
             IN  IF tableKey \in excludedTables THEN rows(i + 1, tables)
                 ELSE rows(i + 1,
                        [k \in 1..Len(known) |->
                           IF known[k].fqn = fqn
                           THEN [known[k] EXCEPT !.columns = Append(@, row.column_name)]
                           ELSE known[k]])
  IN  rows(1, <<>>)

\* attachPrimaryKeys(tables, pkRows) and attachForeignKeys(tables, fkRows):
\* tables.get(makeFqn(...))?.primaryKeys.push(...), ?.foreignKeys.push(...)
attachKeys(tables, field, keyRows) ==
  [k \in 1..Len(tables) |->
     [tables[k] EXCEPT ![field] =
        @ \o LET mine == SelectSeq(keyRows, LAMBDA row :
                           makeFqn(row.table_schema, row.table_name) = tables[k].fqn)
             IN  [i \in 1..Len(mine) |->
                    IF field = "primaryKeys" THEN mine[i].column_name
                    ELSE [constraintName |-> mine[i].constraint_name,
                          column |-> mine[i].column_name,
                          refSchema |-> mine[i].ref_schema,
                          refTable |-> mine[i].ref_table,
                          refColumn |-> mine[i].ref_column]]]]

\* a Promise.all that hands its results over in the order of completion
PromiseAllAsCompleted(results, completed) == [i \in 1..3 |-> results[completed[i]]]

\* await Promise.all([columns, primaryKeys, foreignKeys]): the results in the
\* order of the array, whatever the order of completion
PromiseAll(results, completed) ==
  <<results["columns"], results["primaryKeys"], results["foreignKeys"]>>

IntrospectFrame ==
  UNCHANGED <<minted, presented, verdict, permCall, query, config, exchange, sessions,
              history, handlers, transports, process>>

\* introspectDatabase(pool) is called: pool.query(SCHEMAS_QUERY) is issued
Introspect ==
  /\ introspection.pc = "idle"
  /\ \E catalog \in Catalogs :
       introspection' = [pc |-> "schemas", catalog |-> catalog,
                         issued |-> <<[query |-> "schemas", args |-> <<>>, after |-> <<>>]>>,
                         targetSchemas |-> <<>>, pending |-> {}, completed |-> <<>>,
                         results |-> <<>>, tables |-> <<>>]
  /\ IntrospectFrame

\* the schema query completes: resolveTargetSchemas, then the three queries
\* are issued with the target schemas
SchemasDone ==
  /\ introspection.pc = "schemas"
  /\ LET resolved == resolveTargetSchemas(introspection.catalog.schemas)
         targetSchemas == resolved.targetSchemas
         queries == <<"columns", "primaryKeys", "foreignKeys">>
     IN  introspection' =
           IF resolved.threw
           THEN [introspection EXCEPT !.pc = "threw", !.completed = <<"schemas">>]
           ELSE [introspection EXCEPT
                   !.pc = "queries", !.targetSchemas = targetSchemas,
                   !.completed = <<"schemas">>,
                   !.pending = Range(queries),
                   !.issued = @ \o [i \in 1..3 |->
                                      [query |-> queries[i], args |-> targetSchemas,
                                       after |-> <<"schemas">>]]]
  /\ IntrospectFrame

\* one of the three queries completes with the rows of the target schemas;
\* when it is the last, Promise.all resolves and the model is assembled
QueryDone ==
  /\ introspection.pc = "queries"
  /\ \E q \in introspection.pending :
       LET args == (CHOOSE i \in DOMAIN introspection.issued :
                      introspection.issued[i].query = q)
           rows == SelectSeq(introspection.catalog[q], LAMBDA row :
                     row.table_schema \in Range(introspection.issued[args].args))
           results == (q :> rows) @@ introspection.results
           completed == Append(introspection.completed, q)
           settled == PromiseAll(results, SubSeq(completed, 2, 4))
       IN  introspection' =
             IF introspection.pending = {q}
             THEN [introspection EXCEPT
                     !.pc = "done", !.pending = {}, !.results = results,
                     !.completed = completed,
                     !.tables = attachKeys(attachKeys(buildTableMap(settled[1]),
                                                      "primaryKeys", settled[2]),
                                           "foreignKeys", settled[3])]
             ELSE [introspection EXCEPT
                     !.pending = @ \ {q}, !.results = results, !.completed = completed]
  /\ IntrospectFrame

NextIntrospect == Introspect \/ SchemasDone \/ QueryDone

SpecIntrospect == Init /\ [][NextIntrospect]_vars

\* ------------------------------------------------------------------------
\* Claims about introspection
\* ------------------------------------------------------------------------

\* C22: after introspection no two tables of the schema model have the same
\* route path.
C22_RoutePathUnique ==
  introspection.pc = "done" =>
    \A i, j \in 1..Len(introspection.tables) :
      introspection.tables[i].routePath = introspection.tables[j].routePath => i = j

\* C27: the schema query has completed before the column, primary-key and
\* foreign-key queries are issued; the three are given the same target
\* schemas; and the tables assembled are those of the catalog's rows for the
\* target schemas, in whatever order the three queries completed.
C27_IntrospectionOrder ==
  LET issued == IF introspection.pc = "idle" THEN <<>> ELSE introspection.issued
      inScope(rows) ==
        SelectSeq(rows, LAMBDA row : row.table_schema \in Range(introspection.targetSchemas))
  IN  /\ \A i \in 1..Len(issued) :
           issued[i].query # "schemas" =>
             /\ issued[i].after = <<"schemas">>
             /\ issued[i].args = introspection.targetSchemas
      /\ introspection.pc = "done" =>
           introspection.tables =
             attachKeys(attachKeys(buildTableMap(inScope(introspection.catalog.columns)),
                                   "primaryKeys", inScope(introspection.catalog.primaryKeys)),
                        "foreignKeys", inScope(introspection.catalog.foreignKeys))

\* the foreign-key query completed first and the column query last, and a
\* table with its key and its reference was assembled
C27_Witness ==
  /\ introspection.pc = "done"
  /\ introspection.completed = <<"schemas", "foreignKeys", "primaryKeys", "columns">>
  /\ \E i \in 1..Len(introspection.tables) :
       /\ introspection.tables[i].primaryKeys = <<<<"i", "d">>>>
       /\ Len(introspection.tables[i].foreignKeys) = 1


\* ---------------------------------------------------------------------------
\* Process lifecycle: requests in flight, termination signals, pool shutdown
\* ---------------------------------------------------------------------------

\* requests in flight at once, and termination signals delivered to one process
MaxHandlers == 2
MaxSignals == 2

ShutdownFrame ==
  UNCHANGED <<minted, presented, verdict, permCall, query, config, exchange, sessions,
              history, introspection, transports>>

\* main(): the HTTP server creates the one pool; the stdio agent server
\* creates the primary pool and, with DATABASE_READ_URL, a second read pool
Start ==
  /\ process.pc = "idle"
  /\ \E entry \in {"http", "stdio"} :
     \E replica \in (IF entry = "stdio" THEN BOOLEAN ELSE {FALSE}) :
       process' = [process EXCEPT !.pc = "running", !.entry = entry, !.replica = replica]
  /\ UNCHANGED handlers
  /\ ShutdownFrame

\* the synchronous part of a handler or tool callback, up to its await: the
\* list operations hand the data and the count statement to readPool.query
\* inside one Promise.all, the others hand one statement to a pool; a pool
\* on which end() was called rejects the query
issue(kind) ==
  LET pool == IF kind = "list" /\ process.replica THEN "replica" ELSE "primary"
  IN  IF process.ends[pool] > 0
      THEN [kind |-> kind, pc |-> "done", pool |-> pool, inflight |-> 0, rejected |-> TRUE]
      ELSE [kind |-> kind, pc |-> "querying", pool |-> pool,
            inflight |-> IF kind = "list" THEN 2 ELSE 1, rejected |-> FALSE]

\* a request arrives: the HTTP server accepts it and runs its handler in a
\* later turn (Handle); the stdio transport dispatches the tool callback in
\* the same turn
Receive ==
  /\ process.pc = "running" /\ process.accepting
  /\ Len(handlers) < MaxHandlers
  /\ \E kind \in {"list", "byKey"} :
       handlers' = Append(handlers,
                     IF process.entry = "http"
                     THEN [kind |-> kind, pc |-> "accepted", pool |-> "primary",
                           inflight |-> 0, rejected |-> FALSE]
                     ELSE issue(kind))
  /\ UNCHANGED process
  /\ ShutdownFrame

Handle ==
  /\ process.pc = "running"
  /\ \E i \in DOMAIN handlers :
       /\ handlers[i].pc = "accepted"
       /\ handlers' = [handlers EXCEPT ![i] = issue(handlers[i].kind)]
  /\ UNCHANGED process
  /\ ShutdownFrame

\* one statement in flight completes; the handler answers after its last one
Complete ==
  /\ process.pc = "running"
  /\ \E i \in DOMAIN handlers :
       /\ handlers[i].inflight > 0
       /\ handlers' = [handlers EXCEPT ![i].inflight = @ - 1,
                                        ![i].pc = IF handlers[i].inflight = 1
                                                  THEN "done" ELSE @]
  /\ UNCHANGED process
  /\ ShutdownFrame

\* SIGINT or SIGTERM: shutdown() runs up to `await app.close()` (HTTP) or
\* `await server.close()` (stdio), which stops accepting; pending counts
\* the requests in flight at that moment
Signal ==
  /\ process.pc = "running"
  /\ Len(process.shutdowns) < MaxSignals
  /\ \E signal \in {"SIGINT", "SIGTERM"} :
       process' = [process EXCEPT
         !.accepting = FALSE,
         !.shutdowns = Append(@, [signal |-> signal, pc |-> "closing",
                                  pending |-> Cardinality({i \in DOMAIN handlers :
                                                handlers[i].pc # "done"})])]
  /\ UNCHANGED handlers
  /\ ShutdownFrame

DrainedNever(entry) == TRUE

\* app.close() resolves once the requests in flight were answered;
\* server.close() closes the stdio transport and waits for no callback
Drained(entry) ==
  entry = "http" => \A i \in DOMAIN handlers : handlers[i].pc = "done"

\* pool.end() / readPool.end(): the first call on a pool starts closing it,
\* a further call on the same pool is rejected and rejects shutdown()
end(pool, next) ==
  [process EXCEPT !.ends[pool] = @ + 1,
                  !.shutdowns = [@ EXCEPT ![next.s].pc =
                                   IF process.ends[pool] = 0 THEN next.pc ELSE "rejected"]]

\* the close awaited by a shutdown() resolves, and it calls pool.end()
Closed ==
  /\ process.pc = "running"
  /\ \E s \in DOMAIN process.shutdowns :
       /\ process.shutdowns[s].pc = "closing"
       /\ Drained(process.entry)
       /\ process' = end("primary", [s |-> s, pc |-> "endingPool"])
  /\ UNCHANGED handlers
  /\ ShutdownFrame

\* an end() resolves once the pool's statements in flight have completed:
\* the stdio entry goes on to readPool.end() when the read pool is another
\* pool, and shutdown() finishes with process.exit(0)
Ended ==
  /\ process.pc = "running"
  /\ \E s \in DOMAIN process.shutdowns :
       LET at == process.shutdowns[s].pc
           pool == IF at = "endingPool" THEN "primary" ELSE "replica"
       IN  /\ at \in {"endingPool", "endingRead"}
           /\ \A i \in DOMAIN handlers :
                handlers[i].pool = pool => handlers[i].inflight = 0
           /\ process' = IF at = "endingPool" /\ process.replica
                          THEN end("replica", [s |-> s, pc |-> "endingRead"])
                          ELSE [process EXCEPT !.pc = "exited", !.code = 0]
  /\ UNCHANGED handlers
  /\ ShutdownFrame

\* the rejection of a shutdown() is handled by nobody: the runtime ends the
\* process with a failure code, unless another shutdown() exits first
Crash ==
  /\ process.pc = "running"
  /\ \E s \in DOMAIN process.shutdowns : process.shutdowns[s].pc = "rejected"
  /\ process' = [process EXCEPT !.pc = "exited", !.code = 1]
  /\ UNCHANGED handlers
  /\ ShutdownFrame

NextShutdown ==
  Start \/ Receive \/ Handle \/ Complete \/ Signal \/ Closed \/ Ended \/ Crash

SpecShutdown == Init /\ [][NextShutdown]_vars

\* C25: within one request at most one statement is in flight at any time.
C25_StatementsSerialized ==
  \A i \in DOMAIN handlers : handlers[i].inflight <= 1

C30_PoolsClosedOnce ==
  /\ process.ends.primary <= 1
  /\ process.ends.replica <= 1
  /\ process.pc = "exited" =>
        /\ process.code = 0
        /\ process.ends.primary = 1
        /\ process.ends.replica = IF process.replica THEN 1 ELSE 0


\* ---------------------------------------------------------------------------
\* Session routes, one step per synchronous part of a handler
\* ---------------------------------------------------------------------------

SessionFrame ==
  UNCHANGED <<minted, presented, verdict, permCall, query, config, exchange, history,
              introspection, process>>

\* a route handler runs up to its first await. POST and GET forward to the
\* transport of a stored session (late: its close had begun); POST without
\* one creates a transport and a server and awaits server.connect; DELETE
\* calls transport.close(), which runs onclose before it returns; GET and
\* DELETE without a stored session answer 400
Arrive ==
  /\ Len(handlers) < MaxHandlers
  /\ \E method \in {"POST", "GET", "DELETE"}, sessionId \in 0..MaxSessions, init \in BOOLEAN :
       LET known == hasSession(sessions, sessionId)
           entry(pc, transport) ==
             [method |-> method, sessionId |-> sessionId, init |-> init, pc |-> pc,
              transport |-> transport]
       IN  /\ init => method = "POST"
           /\ IF known /\ method # "DELETE"
              THEN /\ handlers' = Append(handlers, entry("forwarded", sessionId))
                   /\ transports' = [transports EXCEPT ![sessionId].late =
                                       @ \/ transports[sessionId].state # "open"]
                   /\ UNCHANGED sessions
              ELSE IF known
              THEN /\ handlers' = Append(handlers, entry("closing", sessionId))
                   /\ transports' = [transports EXCEPT ![sessionId].state = "closing"]
                   /\ sessions' = onclose(sessions, sessionId)
              ELSE IF method = "POST"
              THEN /\ Len(transports) < MaxSessions
                   /\ handlers' = Append(handlers, entry("connecting", Len(transports) + 1))
                   /\ transports' = Append(transports,
                                       [state |-> "open", sessionId |-> 0, late |-> FALSE])
                   /\ UNCHANGED sessions
              ELSE /\ handlers' = Append(handlers, entry("refused", 0))
                   /\ UNCHANGED <<transports, sessions>>
  /\ SessionFrame

\* server.connect resolves and the handler calls transport.handleRequest: an
\* initialize request gives the transport its session id, any other request
\* is refused by the uninitialized transport
Connected ==
  /\ \E i \in DOMAIN handlers :
       /\ handlers[i].pc = "connecting"
       /\ handlers' = [handlers EXCEPT ![i].pc = "handling"]
       /\ transports' = [transports EXCEPT ![handlers[i].transport].sessionId =
                           IF handlers[i].init THEN handlers[i].transport ELSE 0]
  /\ UNCHANGED sessions
  /\ SessionFrame

\* the await of a handler resolves and it runs to its end: the creating POST
\* stores the session when transport.sessionId is set, DELETE deletes the
\* entry and answers once close() has resolved
Handled ==
  /\ \E i \in DOMAIN handlers :
       LET handler == handlers[i]
           newSessionId == transports[handler.transport].sessionId
       IN  /\ handler.pc # "connecting"
           /\ handlers' = [j \in 1..(Len(handlers) - 1) |->
                             IF j < i THEN handlers[j] ELSE handlers[j + 1]]
           /\ sessions' =
                IF handler.pc = "handling" /\ newSessionId # 0
                THEN [s \in DOMAIN sessions \cup {newSessionId} |->
                        IF s = newSessionId THEN [permissions |-> JsNull] ELSE sessions[s]]
                ELSE IF handler.pc = "closing"
                THEN [s \in DOMAIN sessions \ {handler.sessionId} |-> sessions[s]]
                ELSE sessions
           /\ transports' = IF handler.pc = "closing"
                             THEN [transports EXCEPT ![handler.transport].state = "closed"]
                             ELSE transports
  /\ SessionFrame

NextSessions == Arrive \/ Connected \/ Handled

SpecSessions == Init /\ [][NextSessions]_vars

C29_TransportRegisteredOrClosed ==
  /\ \A t \in DOMAIN transports :
       (/\ \A i \in DOMAIN handlers :
             handlers[i].pc \in {"connecting", "handling"} => handlers[i].transport # t
        /\ transports[t].state = "open")
       => t \in DOMAIN sessions
  /\ \A s \in DOMAIN sessions : transports[s].sessionId = s

=============================================================================
